---- MODULE Spec2Model ----
(***************************************************************************)
(* BINAUTOGO: the risk-adjusted signal pipeline.                           *)
(*                                                                         *)
(*   core/deepseek_analyzer.py   DeepSeekAnalyzer (Recommendation parser)  *)
(*   core/signal_generator.py    SignalGenerator  (Signal builder)         *)
(*   core/risk_manager.py        RiskManager      (Risk Gate)              *)
(*   utils/advanced_risk.py      AdvancedRiskManager (Kelly refiner)       *)
(*   main.py                     BINAUTOGO.analyze_and_trade               *)
(*                                                                         *)
(* Python floats are modelled as exact rationals <<n, d>> (d > 0, lowest   *)
(* terms) extended with the IEEE specials <<0,0>> (NaN), <<1,0>> (+inf)    *)
(* and <<-1,0>> (-inf); rounding is not modelled.                          *)
(***************************************************************************)
EXTENDS Integers, Sequences, FiniteSets, TLC

VARIABLES pc,     \* position of the modelled call
    market_data,   \* the MarketSnapshot handed to the call
    response,      \* outcome of DeepSeekAnalyzer._call_deepseek
    analysis,      \* MarketAnalysis of the last analyze_market call
    signal,        \* the TradingSignal being processed (or None)
    entered,       \* the Risk Gate stage last evaluated and the signal as it entered it
    caller,        \* who called RiskManager.validate_signal
    order,         \* the order placed for the signal (or None)
    signal_history,\* SignalGenerator.signal_history
    now,           \* datetime.now(), in minutes
    daily_pnl,     \* RiskManager.daily_pnl
    trade_history, \* RiskManager.trade_history
    kelly_in,      \* arguments and environment of calculate_kelly_position_size
    kelly_out,     \* its return value
    price_history, \* PumpDetector.price_history, per symbol
    pump_history,  \* PumpDetector.pump_history
    detected_pumps,\* the list returned by the last scan_markets call
    markets,       \* what the exchange answered during that call (or None)
    bot_pc,        \* position of BINAUTOGO.start and run_trading_cycle
    cycle_count,   \* BINAUTOGO.cycle_count
    cycle_pumps,   \* run_trading_cycle: the detected pumps not handled yet
    todo,          \* run_trading_cycle: the trading pairs not analysed yet
    analysed,      \* the pairs analyze_and_trade was called for in this cycle
    positions,     \* OrderExecutor.positions, per symbol (or None)
    realized,      \* the P&L of the positions _close_position has closed
    trading_pairs, \* config.TRADING_PAIRS
    orders,        \* the Order objects place_order has created, oldest first
    closing        \* what the exchange did with the closing orders of the last panic sale

vars == <<pc, market_data, response, analysis, signal, entered, caller, order,
          signal_history, now, daily_pnl, trade_history, kelly_in, kelly_out,
          price_history, pump_history, detected_pumps, markets,
          bot_pc, cycle_count, cycle_pumps, todo, analysed, positions, realized,
          trading_pairs, orders, closing>>

\* Optional values: None is the empty tuple, a present value x is <<x>>.
None == <<>>

Some(x) == <<x>>

Val(o) == o[1]

(***************************************************************************)
(* Float arithmetic                                                        *)
(***************************************************************************)
Sign(n) == IF n > 0 THEN 1 ELSE IF n < 0 THEN -1 ELSE 0

Abs(n) == IF n < 0 THEN -n ELSE n

RECURSIVE GCD(_, _)
GCD(a, b) == IF b = 0 THEN a ELSE GCD(b, a % b)

Norm(n, d) ==
    IF d = 0 THEN <<Sign(n), 0>>
    ELSE LET g == GCD(Abs(n), Abs(d))
             s == IF d < 0 THEN -1 ELSE 1
         IN  <<(s * n) \div g, (s * d) \div g>>

F(n, d) == Norm(n, d)

NaN == <<0, 0>>

Inf == <<1, 0>>

IsNaN(a) == a = NaN

IsFinite(a) == a[2] # 0

FNeg(a) == <<-a[1], a[2]>>

FAbs(a) == <<Abs(a[1]), a[2]>>

\* the factors are reduced crosswise before they are multiplied
FMul(a, b) ==
    IF a[2] = 0 \/ b[2] = 0 THEN <<Sign(a[1]) * Sign(b[1]), 0>>
    ELSE LET g1 == GCD(Abs(a[1]), b[2])
             g2 == GCD(Abs(b[1]), a[2])
         IN  IF a[1] = 0 \/ b[1] = 0 THEN <<0, 1>>
             ELSE <<(a[1] \div g1) * (b[1] \div g2), (a[2] \div g2) * (b[2] \div g1)>>

FInv(a) ==
    IF a[2] = 0 THEN (IF IsNaN(a) THEN NaN ELSE <<0, 1>>)
    ELSE IF a[1] = 0 THEN Inf
    ELSE Norm(a[2], a[1])

\* IEEE division (numpy scalars, pandas Series): x/0 is +-inf or NaN.  A
\* division of Python floats raises ZeroDivisionError instead; the callers
\* guard it.
FDiv(a, b) == FMul(a, FInv(b))

FAdd(a, b) ==
    IF a[2] = 0 \/ b[2] = 0
    THEN IF IsNaN(a) \/ IsNaN(b) THEN NaN
         ELSE IF a[2] = 0 /\ b[2] = 0 THEN (IF a = b THEN a ELSE NaN)
         ELSE IF a[2] = 0 THEN a ELSE b
    ELSE LET g == GCD(a[2], b[2])
         IN  Norm(a[1] * (b[2] \div g) + b[1] * (a[2] \div g), (a[2] \div g) * b[2])

FSub(a, b) == FAdd(a, FNeg(b))

FLt(a, b) ==
    IF IsNaN(a) \/ IsNaN(b) THEN FALSE
    ELSE IF a[2] = 0 /\ b[2] = 0 THEN a[1] < b[1]
    ELSE IF a[2] = 0 THEN a[1] < 0
    ELSE IF b[2] = 0 THEN b[1] > 0
    ELSE LET g == GCD(a[2], b[2])
         IN  a[1] * (b[2] \div g) < b[1] * (a[2] \div g)

FGt(a, b) == FLt(b, a)

FLe(a, b) == ~IsNaN(a) /\ ~IsNaN(b) /\ (a = b \/ FLt(a, b))

FGe(a, b) == FLe(b, a)

\* Python's min(a, b) / max(a, b): the first argument unless the second
\* compares strictly smaller / larger (so a NaN first argument survives).
PyMin(a, b) == IF FLt(b, a) THEN b ELSE a

PyMax(a, b) == IF FGt(b, a) THEN b ELSE a

\* bool(x) of a float: only zero is falsy.
Truthy(a) == a # <<0, 1>>

(***************************************************************************)
(* config/settings.py                                                      *)
(***************************************************************************)
MIN_CONFIDENCE == F(65, 100)

MIN_RISK_REWARD_RATIO == F(3, 2)

MAX_DRAWDOWN == F(10, 100)

DEFAULT_STOP_LOSS_PERCENT == F(3, 100)

DEFAULT_TAKE_PROFIT_PERCENT == F(6, 100)

MAX_POSITION_SIZE_PERCENT == F(20, 100)

MAX_POSITIONS == 5

RSI_OVERSOLD == F(30, 1)

RSI_OVERBOUGHT == F(70, 1)

MIN_BALANCE == F(100, 1)

MAX_TRADES_PER_HOUR == 10

EMERGENCY_STOP_DRAWDOWN == F(15, 100)

(***************************************************************************)
(* The advisory model's reply.  The content is a sequence of tokens:       *)
(*   "FENCEJSON" "FENCE"  the markdown fences, with and without "json"      *)
(*   " "               whitespace                                          *)
(*   "t"               prose that contains no brace                        *)
(*   "{" "}"           braces                                              *)
(*   "m"               the well-formed members of a JSON object, whose     *)
(*                     decoded values are the reply's fields               *)
(*   "x"               text that is not valid JSON                         *)
(* A decoded JSON value is [t, f, s]: t is "missing" (key absent), "null", *)
(* "num" (a number, f its value) or "str" (a string, s its text).          *)
(***************************************************************************)
JMissing == [t |-> "missing", f |-> NaN, s |-> ""]

JNull == [t |-> "null", f |-> NaN, s |-> ""]

JNum(n, d) == [t |-> "num", f |-> F(n, d), s |-> ""]

JStr(str) == [t |-> "str", f |-> NaN, s |-> str]

\* float(s) of a string: the strings that parse, and their values.
NumericStrings == {"0.8", "nan", "inf"}

StrToFloat(str) ==
    CASE str = "0.8" -> F(4, 5)
      [] str = "nan" -> NaN
      [] str = "inf" -> Inf

\* int(s) of a string: only integer literals parse ("4.7" does not).
IntegerStrings == {"7"}

StrToInt(str) == CASE str = "7" -> 7

\* str.lower()
Lower(str) ==
    CASE str = "BULLISH" -> "bullish"
      [] str = "Bearish" -> "bearish"
      [] OTHER -> str

\* float(data.get(key, default)): raises TypeError on null and ValueError on
\* a string that is not a number.
FloatRaises(j) ==
    \/ j.t = "null"
    \/ j.t = "str" /\ j.s \notin NumericStrings

FloatOf(j, default) ==
    CASE j.t = "missing" -> default
      [] j.t = "num" -> j.f
      [] j.t = "str" -> StrToFloat(j.s)

\* int(data.get(key, default)): truncates a float toward zero, raises on
\* NaN and infinities, on null and on a string that is not an integer.
IntRaises(j) ==
    \/ j.t = "null"
    \/ j.t = "num" /\ ~IsFinite(j.f)
    \/ j.t = "str" /\ j.s \notin IntegerStrings

IntOf(j, default) ==
    CASE j.t = "missing" -> default
      [] j.t = "num" -> Sign(j.f[1]) * (Abs(j.f[1]) \div j.f[2])
      [] j.t = "str" -> StrToInt(j.s)

\* data.get('direction', 'neutral').lower(): AttributeError unless a string.
LowerRaises(j) == j.t \in {"null", "num"}

LowerOf(j, default) ==
    CASE j.t = "missing" -> Lower(default)
      [] j.t = "str" -> Lower(j.s)

RECURSIVE LStrip(_)
LStrip(s) == IF s # <<>> /\ Head(s) = " " THEN LStrip(Tail(s)) ELSE s

RECURSIVE RStrip(_)
RStrip(s) ==
    IF s # <<>> /\ s[Len(s)] = " " THEN RStrip(SubSeq(s, 1, Len(s) - 1)) ELSE s

\* str.strip()
Strip(s) == LStrip(RStrip(s))

\* response[7:] after startswith of the json fence
DropJsonFence(s) ==
    IF s # <<>> /\ Head(s) = "FENCEJSON" THEN Tail(s) ELSE s

\* response[3:] after startswith of three backticks: a leading "FENCEJSON" token also
\* starts with three backticks and leaves the prose "json" behind.
DropFence(s) ==
    IF s # <<>> /\ Head(s) = "FENCE" THEN Tail(s)
    ELSE IF s # <<>> /\ Head(s) = "FENCEJSON" THEN <<"t">> \o Tail(s)
    ELSE s

\* response[:-3] after endswith of three backticks
DropEndFence(s) ==
    IF s # <<>> /\ s[Len(s)] = "FENCE" THEN SubSeq(s, 1, Len(s) - 1) ELSE s

\* str.find / str.rfind, 0-based, -1 when absent
Find(s, tok) ==
    IF \E i \in 1..Len(s) : s[i] = tok
    THEN (CHOOSE i \in 1..Len(s) : s[i] = tok /\ \A j \in 1..(i - 1) : s[j] # tok) - 1
    ELSE -1

RFind(s, tok) ==
    IF \E i \in 1..Len(s) : s[i] = tok
    THEN (CHOOSE i \in 1..Len(s) : s[i] = tok /\ \A j \in (i + 1)..Len(s) : s[j] # tok) - 1
    ELSE -1

\* response[start:end], 0-based half-open
Slice(s, start, end) == SubSeq(s, start + 1, end)

RECURSIVE NoSpace(_)
NoSpace(s) ==
    IF s = <<>> THEN <<>>
    ELSE IF Head(s) = " " THEN NoSpace(Tail(s))
    ELSE <<Head(s)>> \o NoSpace(Tail(s))

\* json.loads: "object" with the reply's fields, "empty" for {}, or
\* JSONDecodeError
JsonLoads(s) ==
    CASE NoSpace(s) = <<"{", "m", "}">> -> "object"
      [] NoSpace(s) = <<"{", "}">> -> "empty"
      [] OTHER -> "error"

AllMissing ==
    [direction |-> JMissing, confidence |-> JMissing, entry_price |-> JMissing,
     target_price |-> JMissing, stop_loss |-> JMissing,
     position_size |-> JMissing, risk_score |-> JMissing]

\* a variant that falls back to the defaults of a successful parse
\* (confidence 0.5, risk score 5)
_create_neutral_analysis_defaults(md) ==
    [symbol |-> md.symbol,
     direction |-> "neutral",
     confidence |-> F(5, 10),
     entry_price |-> md.current_price,
     target_price |-> md.current_price,
     stop_loss |-> FMul(md.current_price, F(97, 100)),
     position_size |-> F(0, 1),
     risk_score |-> 5,
     is_valid |-> FALSE]

_create_neutral_analysis(md) ==
    [symbol |-> md.symbol,
     direction |-> "neutral",
     confidence |-> F(1, 10),
     entry_price |-> md.current_price,
     target_price |-> md.current_price,
     stop_loss |-> FMul(md.current_price, F(97, 100)),
     position_size |-> F(0, 1),
     risk_score |-> 10,
     is_valid |-> FALSE]

\* the cleaned reply text of _parse_response (lines 219-226)
CleanResponse(text) ==
    Strip(DropEndFence(DropFence(DropJsonFence(Strip(text)))))

\* lines 229-236: the decoded data, or "error" when no JSON is found or
\* json.loads raises
DecodeResponse(text) ==
    LET cleaned == CleanResponse(text)
        start_idx == Find(cleaned, "{")
        end_idx == RFind(cleaned, "}") + 1
    IN  IF start_idx = -1 \/ end_idx = 0 THEN "error"
        ELSE JsonLoads(Slice(cleaned, start_idx, end_idx))

\* lines 239-251 raise while converting a field
ExtractRaises(data) ==
    \/ LowerRaises(data.direction)
    \/ FloatRaises(data.confidence)
    \/ FloatRaises(data.entry_price)
    \/ FloatRaises(data.target_price)
    \/ FloatRaises(data.stop_loss)
    \/ FloatRaises(data.position_size)
    \/ IntRaises(data.risk_score)

\* lines 254-255
ValidConfidence(c) == IF FLt(c, F(0, 1)) \/ FGt(c, F(1, 1)) THEN F(1, 2) ELSE c

\* lines 257-258
ValidDirection(d) == IF d \notin {"bullish", "bearish", "neutral"} THEN "neutral" ELSE d

\* lines 260-261
ValidRiskScore(r) == IF r < 1 \/ r > 10 THEN 5 ELSE r

_parse_response(text, fields, md) ==
    LET decoded == DecodeResponse(text)
        data == IF decoded = "object" THEN fields ELSE AllMissing
    IN  IF decoded = "error" \/ ExtractRaises(data)
        THEN _create_neutral_analysis(md)
        ELSE [symbol |-> md.symbol,
              direction |-> ValidDirection(LowerOf(data.direction, "neutral")),
              confidence |-> ValidConfidence(FloatOf(data.confidence, F(1, 2))),
              entry_price |-> FloatOf(data.entry_price, md.current_price),
              target_price |-> FloatOf(data.target_price, md.current_price),
              stop_loss |-> FloatOf(data.stop_loss, FMul(md.current_price, F(97, 100))),
              position_size |-> FloatOf(data.position_size, F(1, 10)),
              risk_score |-> ValidRiskScore(IntOf(data.risk_score, 5)),
              is_valid |-> TRUE]

\* _call_deepseek returns the content on HTTP 200 and None on any other
\* status, on a timeout and on any exception.
_call_deepseek(resp) == IF resp.call = "ok" THEN Some(resp.text) ELSE None

\* the test (not response): None or the empty string
NoResponse(r) == r = None \/ Val(r) = <<>>

analyze_market(resp, md) ==
    LET r == _call_deepseek(resp)
    IN  IF NoResponse(r) THEN _create_neutral_analysis(md)
        ELSE _parse_response(Val(r), resp.fields, md)

(***************************************************************************)
(* core/signal_generator.py                                                *)
(***************************************************************************)
\* a variant that keeps the stop nearer to the entry (max for a long, min
\* for a short)
_calculate_stop_loss_tighter(entry_price, signal_type, suggested_sl) ==
    IF Truthy(suggested_sl) /\ FGt(suggested_sl, F(0, 1))
    THEN IF signal_type = "long"
         THEN PyMax(suggested_sl, FMul(entry_price, FSub(F(1, 1), DEFAULT_STOP_LOSS_PERCENT)))
         ELSE PyMin(suggested_sl, FMul(entry_price, FAdd(F(1, 1), DEFAULT_STOP_LOSS_PERCENT)))
    ELSE IF signal_type = "long"
         THEN FMul(entry_price, FSub(F(1, 1), DEFAULT_STOP_LOSS_PERCENT))
         ELSE FMul(entry_price, FAdd(F(1, 1), DEFAULT_STOP_LOSS_PERCENT))

_calculate_stop_loss(entry_price, signal_type, suggested_sl) ==
    IF Truthy(suggested_sl) /\ FGt(suggested_sl, F(0, 1))
    THEN IF signal_type = "long"
         THEN PyMin(suggested_sl, FMul(entry_price, FSub(F(1, 1), DEFAULT_STOP_LOSS_PERCENT)))
         ELSE PyMax(suggested_sl, FMul(entry_price, FAdd(F(1, 1), DEFAULT_STOP_LOSS_PERCENT)))
    ELSE IF signal_type = "long"
         THEN FMul(entry_price, FSub(F(1, 1), DEFAULT_STOP_LOSS_PERCENT))
         ELSE FMul(entry_price, FAdd(F(1, 1), DEFAULT_STOP_LOSS_PERCENT))

\* a variant that ignores the suggested target
_calculate_take_profit_default(entry_price, signal_type, suggested_tp) ==
    IF signal_type = "long"
    THEN FMul(entry_price, FAdd(F(1, 1), DEFAULT_TAKE_PROFIT_PERCENT))
    ELSE FMul(entry_price, FSub(F(1, 1), DEFAULT_TAKE_PROFIT_PERCENT))

_calculate_take_profit(entry_price, signal_type, suggested_tp) ==
    IF Truthy(suggested_tp) /\ FGt(suggested_tp, F(0, 1))
    THEN IF signal_type = "long"
         THEN PyMax(suggested_tp, FMul(entry_price, FAdd(F(1, 1), DEFAULT_TAKE_PROFIT_PERCENT)))
         ELSE PyMin(suggested_tp, FMul(entry_price, FSub(F(1, 1), DEFAULT_TAKE_PROFIT_PERCENT)))
    ELSE IF signal_type = "long"
         THEN FMul(entry_price, FAdd(F(1, 1), DEFAULT_TAKE_PROFIT_PERCENT))
         ELSE FMul(entry_price, FSub(F(1, 1), DEFAULT_TAKE_PROFIT_PERCENT))

\* the risk and reward distances of _calculate_risk_reward
RiskDistance(entry, stop_loss, signal_type) ==
    IF signal_type = "long" THEN FSub(entry, stop_loss) ELSE FSub(stop_loss, entry)

RewardDistance(entry, take_profit, signal_type) ==
    IF signal_type = "long" THEN FSub(take_profit, entry) ELSE FSub(entry, take_profit)

\* a variant that returns risk / reward
_calculate_risk_reward_swapped(entry, stop_loss, take_profit, signal_type) ==
    LET risk == RiskDistance(entry, stop_loss, signal_type)
        reward == RewardDistance(entry, take_profit, signal_type)
    IN  IF FLe(risk, F(0, 1)) THEN F(0, 1) ELSE FDiv(risk, reward)

_calculate_risk_reward(entry, stop_loss, take_profit, signal_type) ==
    LET risk == RiskDistance(entry, stop_loss, signal_type)
        reward == RewardDistance(entry, take_profit, signal_type)
    IN  IF FLe(risk, F(0, 1)) THEN F(0, 1) ELSE FDiv(reward, risk)

\* a variant that looks back half as far
_get_recent_signals_halved(history, symbol, minutes, t) ==
    SelectSeq(history, LAMBDA s : s.symbol = symbol /\ 2 * s.timestamp > 2 * t - minutes)

_get_recent_signals(history, symbol, minutes, t) ==
    SelectSeq(history, LAMBDA s : s.symbol = symbol /\ s.timestamp > t - minutes)

\* the five checks of _validate_signal; the division by the current price
\* raises on a zero price (see generate_signal)
_validate_signal(sig, md, history, t) ==
    LET price_diff == FDiv(FAbs(FSub(sig.price, md.current_price)), md.current_price)
        rsi == md.rsi_5m
        volume_ratio == md.volume_ratio
        recent_signals == _get_recent_signals(history, sig.symbol, 60, t)
    IN  /\ FLt(price_diff, F(2, 100))
        /\ IF sig.signal_type = "long"
           THEN FLt(sig.stop_loss, sig.price) /\ FGt(sig.take_profit, sig.price)
           ELSE FGt(sig.stop_loss, sig.price) /\ FLt(sig.take_profit, sig.price)
        /\ IF sig.signal_type = "long"
           THEN FLt(rsi, RSI_OVERBOUGHT)
           ELSE FGt(rsi, RSI_OVERSOLD)
        /\ FGt(volume_ratio, F(8, 10))
        /\ Len(recent_signals) < MAX_TRADES_PER_HOUR

TradingSignal(symbol, direction, signal_type, price, quantity, stop_loss, take_profit, confidence, an, t) ==
    [symbol |-> symbol, direction |-> direction, signal_type |-> signal_type,
     strength |-> confidence, price |-> price, quantity |-> quantity,
     stop_loss |-> stop_loss, take_profit |-> take_profit,
     confidence |-> confidence, analysis |-> an, timestamp |-> t,
     is_valid |-> TRUE, leverage |-> 1]

\* generate_signal after the analysis is obtained (lines 73-156): the signal
\* it returns, or None
generate_signal(an, md, history, t) ==
    LET current_price == md.current_price
        signal_type == IF an.direction = "bullish" THEN "long" ELSE "short"
        direction == IF signal_type = "long" THEN "buy" ELSE "sell"
        stop_loss == _calculate_stop_loss(current_price, signal_type, an.stop_loss)
        take_profit == _calculate_take_profit(current_price, signal_type, an.target_price)
        risk_reward_ratio ==
            _calculate_risk_reward(current_price, stop_loss, take_profit, signal_type)
        sig == TradingSignal(md.symbol, direction, signal_type, current_price,
                             an.position_size, stop_loss, take_profit,
                             an.confidence, an, t)
    IN  IF ~an.is_valid THEN None
        ELSE IF FLt(an.confidence, MIN_CONFIDENCE) THEN None
        ELSE IF an.direction = "neutral" THEN None
        ELSE IF FLt(risk_reward_ratio, MIN_RISK_REWARD_RATIO) THEN None
        ELSE IF current_price = F(0, 1) THEN None
        ELSE Some([sig EXCEPT !.is_valid = _validate_signal(sig, md, history, t)])

\* line 150: only a valid signal is appended; the history keeps the fields
\* of the signal that the generator reads back
AppendValid(history, result) ==
    IF result # None /\ Val(result).is_valid
    THEN Append(history, [symbol |-> Val(result).symbol,
                          timestamp |-> Val(result).timestamp,
                          is_valid |-> Val(result).is_valid])
    ELSE history

(***************************************************************************)
(* core/risk_manager.py                                                    *)
(***************************************************************************)
\* The portfolio getters are stubs that return fixed values.
_get_portfolio_value == F(10000, 1)

_get_free_balance == F(5000, 1)

\* a variant in which the book already holds a position worth 70% of the
\* portfolio
_get_current_positions_held == <<[symbol |-> "BNB/USDT", value |-> F(7000, 1)]>>

_get_current_positions == <<>>

RECURSIVE SumValue(_)
SumValue(held) ==
    IF held = <<>> THEN F(0, 1)
    ELSE FAdd(Head(held).value, SumValue(Tail(held)))

_get_current_exposure == SumValue(_get_current_positions)

\* 'BTC' in symbol
HasBTC(symbol) == symbol = "BTC/USDT"

_get_recent_trades(trades, hours, t) ==
    SelectSeq(trades, LAMBDA tr : tr.timestamp > t - 60 * hours)

\* pd.Series(daily_pnl).cumsum(): the running sums
RECURSIVE CumSum(_)
CumSum(pnl) ==
    IF pnl = <<>> THEN <<>>
    ELSE LET front == CumSum(SubSeq(pnl, 1, Len(pnl) - 1))
         IN  Append(front, IF front = <<>> THEN pnl[Len(pnl)]
                           ELSE front[Len(front)] + pnl[Len(pnl)])

\* cumulative_pnl.expanding().max(), last element
RunningMax(cum) == CHOOSE m \in {cum[i] : i \in 1..Len(cum)} :
                       \A i \in 1..Len(cum) : cum[i] <= m

\* a variant without the final abs(): the drawdown comes out negative
_calculate_current_drawdown_signed(pnl) ==
    IF pnl = <<>> THEN F(0, 1)
    ELSE LET cum == CumSum(pnl)
             last == cum[Len(cum)]
             running_max == RunningMax(cum)
         IN  FDiv(F(last - running_max, 1), F(Abs(running_max), 1))

\* (cumulative - running_max) / |running_max| at the last element, as a
\* pandas (IEEE) division, then abs()
_calculate_current_drawdown(pnl) ==
    IF pnl = <<>> THEN F(0, 1)
    ELSE LET cum == CumSum(pnl)
             last == cum[Len(cum)]
             running_max == RunningMax(cum)
         IN  FAbs(FDiv(F(last - running_max, 1), F(Abs(running_max), 1)))

_get_performance_multiplier(pnl) ==
    IF Len(pnl) < 10 THEN F(1, 1)
    ELSE LET recent_pnl == SubSeq(pnl, Len(pnl) - 9, Len(pnl))
             wins == Cardinality({i \in 1..10 : recent_pnl[i] > 0})
             win_rate == F(wins, 10)
         IN  IF FGt(win_rate, F(70, 100)) THEN F(12, 10)
             ELSE IF FLt(win_rate, F(30, 100)) THEN F(6, 10)
             ELSE F(1, 1)

_calculate_volatility(md) == FDiv(FAbs(md.price_change_24h), F(100, 1))

_check_portfolio_exposure(sig) ==
    LET current_exposure == _get_current_exposure
        portfolio_value == _get_portfolio_value
        signal_value == FMul(sig.quantity, sig.price)
        new_exposure == FAdd(current_exposure, signal_value)
        exposure_ratio == IF FGt(portfolio_value, F(0, 1))
                          THEN FDiv(new_exposure, portfolio_value) ELSE F(0, 1)
        max_signal_value == FSub(FMul(F(80, 100), portfolio_value), current_exposure)
    IN  IF FGt(exposure_ratio, F(80, 100))
        THEN IF FGt(max_signal_value, F(0, 1))
             THEN IF sig.price = F(0, 1)
                  THEN [sig EXCEPT !.is_valid = FALSE]
                  ELSE [sig EXCEPT !.quantity = FDiv(max_signal_value, sig.price)]
             ELSE [sig EXCEPT !.is_valid = FALSE]
        ELSE sig

\* a variant without the 8% floor
AdjustedSize_unfloored(sig, md, pnl) ==
    LET adjusted_size ==
            FMul(FMul(FMul(sig.analysis.position_size, FMul(sig.confidence, sig.confidence)),
                      IF FGt(_calculate_volatility(md), F(0, 1))
                      THEN PyMin(F(1, 1), FDiv(F(2, 100), _calculate_volatility(md)))
                      ELSE F(1, 1)),
                 _get_performance_multiplier(pnl))
    IN  PyMin(adjusted_size, MAX_POSITION_SIZE_PERCENT)

\* the fraction of the portfolio of _calculate_position_size (lines 127-156)
AdjustedSize(sig, md, pnl) ==
    LET portfolio_value == _get_portfolio_value
        free_balance == _get_free_balance
        base_position_size == sig.analysis.position_size
        confidence_multiplier == FMul(sig.confidence, sig.confidence)
        volatility == _calculate_volatility(md)
        volatility_adjustment ==
            IF FGt(volatility, F(0, 1))
            THEN PyMin(F(1, 1), FDiv(F(2, 100), volatility)) ELSE F(1, 1)
        performance_multiplier == _get_performance_multiplier(pnl)
        adjusted_size == FMul(FMul(FMul(base_position_size, confidence_multiplier),
                                   volatility_adjustment), performance_multiplier)
        clamped == PyMax(F(8, 100), PyMin(adjusted_size, MAX_POSITION_SIZE_PERCENT))
        min_free_balance == FMul(portfolio_value, F(30, 100))
    IN  IF FLt(free_balance, min_free_balance)
        THEN FMul(clamped, FDiv(free_balance, min_free_balance))
        ELSE clamped

\* position_value / signal.price raises ZeroDivisionError on a zero price:
\* the except branch invalidates the signal and leaves the quantity
_calculate_position_size(sig, md, pnl) ==
    LET position_value == FMul(_get_portfolio_value, AdjustedSize(sig, md, pnl))
    IN  IF sig.price = F(0, 1)
        THEN [sig EXCEPT !.is_valid = FALSE]
        ELSE [sig EXCEPT !.quantity = FDiv(position_value, sig.price)]

\* a variant that takes the 80% level as included
DrawdownWarning_inclusive(current_drawdown) ==
    FGe(current_drawdown, FMul(MAX_DRAWDOWN, F(80, 100)))

\* line 192: current_drawdown >= config.MAX_DRAWDOWN * 0.80.  The product of
\* the doubles 0.10 and 0.80 is 0.08000000000000002, the double next above
\* 0.08: a drawdown of 0.08 does not pass the test, every larger one does
DrawdownWarning(current_drawdown) ==
    FGt(current_drawdown, FMul(MAX_DRAWDOWN, F(80, 100)))

\* a variant that marks the signal valid when no drawdown limit is reached
_check_drawdown_limit_revalidating(sig, pnl) ==
    LET current_drawdown == _calculate_current_drawdown(pnl)
        reduced == IF DrawdownWarning(current_drawdown)
                   THEN [sig EXCEPT !.quantity = FMul(sig.quantity, F(1, 2))]
                   ELSE sig
    IN  IF FGe(current_drawdown, EMERGENCY_STOP_DRAWDOWN)
        THEN [sig EXCEPT !.is_valid = FALSE]
        ELSE IF FGe(current_drawdown, MAX_DRAWDOWN)
             THEN [reduced EXCEPT !.is_valid = FALSE]
             ELSE [reduced EXCEPT !.is_valid = TRUE]

_check_drawdown_limit(sig, pnl) ==
    LET current_drawdown == _calculate_current_drawdown(pnl)
        reduced == IF DrawdownWarning(current_drawdown)
                   THEN [sig EXCEPT !.quantity = FMul(sig.quantity, F(1, 2))]
                   ELSE sig
    IN  IF FGe(current_drawdown, EMERGENCY_STOP_DRAWDOWN)
        THEN [sig EXCEPT !.is_valid = FALSE]
        ELSE IF FGe(current_drawdown, MAX_DRAWDOWN)
             THEN [reduced EXCEPT !.is_valid = FALSE]
             ELSE reduced

_check_correlation_limits(sig) ==
    LET current_positions == _get_current_positions
        btc == SelectSeq(current_positions, LAMBDA pos : HasBTC(pos.symbol))
        btc_exposure == SumValue(btc)
        portfolio_value == _get_portfolio_value
        btc_ratio == IF FGt(portfolio_value, F(0, 1))
                     THEN FDiv(btc_exposure, portfolio_value) ELSE F(0, 1)
    IN  IF current_positions = <<>> THEN sig
        ELSE IF HasBTC(sig.symbol) /\ FGt(btc_ratio, F(40, 100))
             THEN [sig EXCEPT !.quantity = FMul(sig.quantity, FDiv(F(40, 100), btc_ratio))]
             ELSE sig

\* a variant with the ratio upside down (actual change / 5%): it grows the
\* quantity where the code shrinks it
_adjust_for_volatility_inverted(sig, md) ==
    LET daily_change == FDiv(FAbs(md.price_change_24h), F(100, 1))
    IN  IF FGt(daily_change, F(5, 100))
        THEN [sig EXCEPT !.quantity = FMul(sig.quantity, FDiv(daily_change, F(5, 100)))]
        ELSE sig

_adjust_for_volatility(sig, md) ==
    LET daily_change == FDiv(FAbs(md.price_change_24h), F(100, 1))
    IN  IF FGt(daily_change, F(5, 100))
        THEN [sig EXCEPT !.quantity = FMul(sig.quantity, FDiv(F(5, 100), daily_change))]
        ELSE sig

_check_sufficient_balance(sig) ==
    LET free_balance == _get_free_balance
        position_value == FMul(sig.quantity, sig.price)
    IN  IF FLt(free_balance, MIN_BALANCE)
        THEN [sig EXCEPT !.is_valid = FALSE]
        ELSE IF FGt(position_value, free_balance)
             THEN [sig EXCEPT !.quantity = FDiv(free_balance, sig.price)]
             ELSE sig

_check_trade_frequency(sig, trades, t) ==
    LET current_positions == _get_current_positions
        recent_trades == _get_recent_trades(trades, 1, t)
    IN  IF Len(current_positions) >= MAX_POSITIONS
        THEN [sig EXCEPT !.is_valid = FALSE]
        ELSE IF Len(recent_trades) >= MAX_TRADES_PER_HOUR
             THEN [sig EXCEPT !.is_valid = FALSE]
             ELSE sig

(***************************************************************************)
(* utils/advanced_risk.py                                                  *)
(* A metrics record is [present, total_trades, win_rate, avg_win,          *)
(* avg_loss, numpy]: present is FALSE for None or an empty dict; numpy     *)
(* tells that avg_win and avg_loss are numpy scalars (np.mean in           *)
(* PortfolioTracker.calculate_performance) and not Python numbers.         *)
(***************************************************************************)
kelly_fraction == F(25, 100)

min_position_size == F(5, 100)

max_position_size == F(25, 100)

\* lines 62-70
KellyOdds(m) ==
    IF FGt(FAbs(m.avg_loss), F(0, 1)) THEN FDiv(m.avg_win, FAbs(m.avg_loss))
    ELSE F(2, 1)

\* odds is a numpy scalar exactly when it came from the numpy division
OddsIsNumpy(m) == m.numpy /\ FGt(FAbs(m.avg_loss), F(0, 1))

\* line 76: (odds * p - q) / odds
KellyPercentage(m) ==
    LET odds == KellyOdds(m)
        p == m.win_rate
        q == FSub(F(1, 1), p)
    IN  FDiv(FSub(FMul(odds, p), q), odds)

\* a variant that only caps the fractional Kelly (no 5% floor)
FractionalKelly_capped(m) ==
    LET fractional_kelly == FMul(KellyPercentage(m), kelly_fraction)
    IN  PyMin(fractional_kelly, max_position_size)

\* lines 79-83
FractionalKelly(m) ==
    LET fractional_kelly == FMul(KellyPercentage(m), kelly_fraction)
    IN  PyMax(min_position_size, PyMin(fractional_kelly, max_position_size))

\* the clamp returned the computed (numpy) value, not one of its bounds
FractionalIsNumpy(m) ==
    LET fractional_kelly == FMul(KellyPercentage(m), kelly_fraction)
    IN  /\ OddsIsNumpy(m)
        /\ ~FLt(max_position_size, fractional_kelly)
        /\ FGt(fractional_kelly, min_position_size)

\* lines 90-100: 10000 unless OrderExecutor().get_balance() is truthy
KellyPortfolioValue(balance) ==
    IF balance # None /\ Truthy(Val(balance)) THEN Val(balance) ELSE F(10000, 1)

\* a ZeroDivisionError inside the try block: a Python float divided by zero
KellyRaises(sig, m) ==
    \/ KellyOdds(m) = F(0, 1) /\ ~OddsIsNumpy(m)
    \/ sig.price = F(0, 1) /\ ~FractionalIsNumpy(m)

\* a variant that ignores the number of trades and sizes from any metrics
calculate_kelly_position_size_always(sig, m, balance) ==
    IF ~m.present THEN sig.quantity
    ELSE IF KellyRaises(sig, m) THEN sig.quantity
    ELSE LET confidence_adjusted == FMul(FractionalKelly(m), sig.confidence)
             position_value == FMul(KellyPortfolioValue(balance), confidence_adjusted)
         IN  FDiv(position_value, sig.price)

calculate_kelly_position_size(sig, m, balance) ==
    IF ~m.present \/ m.total_trades < 10 THEN sig.quantity
    ELSE IF KellyRaises(sig, m) THEN sig.quantity
    ELSE LET confidence_adjusted == FMul(FractionalKelly(m), sig.confidence)
             position_value == FMul(KellyPortfolioValue(balance), confidence_adjusted)
         IN  FDiv(position_value, sig.price)

(***************************************************************************)
(* PumpDetector                                                            *)
(***************************************************************************)
\* __init__, lines 58-61
price_threshold == F(3, 100)

volume_multiplier == F(3, 1)

orderbook_threshold == F(65, 100)

lookback_minutes == 5

\* strategy.max_pump_pairs, read at line 309
max_pump_pairs == 5

\* _update_price_history: the point is appended, then the points not newer
\* than the lookback are dropped
_update_price_history(history, price, volume, t) ==
    LET appended == Append(history, [timestamp |-> t, price |-> price, volume |-> volume])
        cutoff_time == t - lookback_minutes
    IN  SelectSeq(appended, LAMBDA p : p.timestamp > cutoff_time)

\* previous_price = 0 makes line 211 raise ZeroDivisionError
PriceChangeRaises(history) ==
    Len(history) >= 2 /\ history[Len(history) - 1].price = F(0, 1)

_calculate_price_change(history) ==
    IF Len(history) < 2 THEN F(0, 1)
    ELSE LET current_price == history[Len(history)].price
             previous_price == history[Len(history) - 1].price
         IN  FDiv(FSub(current_price, previous_price), previous_price)

RECURSIVE SumVolume(_, _)
SumVolume(history, k) ==
    IF k = 0 THEN F(0, 1) ELSE FAdd(SumVolume(history, k - 1), history[k].volume)

_calculate_volume_change(history) ==
    IF Len(history) < 3 THEN F(0, 1)
    ELSE LET avg_volume == FDiv(SumVolume(history, Len(history) - 1),
                                F(Len(history) - 1, 1))
             current_volume == history[Len(history)].volume
         IN  IF avg_volume = F(0, 1) THEN F(0, 1) ELSE FDiv(current_volume, avg_volume)

\* _analyze_orderbook: None stands for a fetch_order_book that raised
_analyze_orderbook(orderbook) ==
    IF orderbook = None THEN F(1, 2)
    ELSE LET bid_volume == Val(orderbook).bids
             ask_volume == Val(orderbook).asks
             total_volume == FAdd(bid_volume, ask_volume)
         IN  IF total_volume = F(0, 1) THEN F(1, 2) ELSE FDiv(bid_volume, total_volume)

_calculate_confidence(price_change, volume_change, orderbook_imbalance) ==
    LET price_score == PyMin(FDiv(price_change, F(10, 100)), F(1, 1))
        volume_score == PyMin(FDiv(volume_change, F(5, 1)), F(1, 1))
        orderbook_score == orderbook_imbalance
    IN  FAdd(FAdd(FMul(price_score, F(4, 10)), FMul(volume_score, F(35, 100))),
             FMul(orderbook_score, F(25, 100)))

_get_active_pump_count(pumps, t) ==
    Len(SelectSeq(pumps, LAMBDA p : p.timestamp > t - 10))

\* a variant that does not count the recent pumps of the symbol
_validate_pump_signal_uncounted(pump, pumps, t) ==
    /\ FGe(pump.confidence, F(6, 10))
    /\ _get_active_pump_count(pumps, t) < max_pump_pairs
    /\ FLt(pump.price_change_percent, F(50, 1))

_validate_pump_signal(pump, pumps, t) ==
    LET recent_pumps ==
            SelectSeq(pumps, LAMBDA p : p.symbol = pump.symbol /\ p.timestamp > t - 30)
    IN  /\ FGe(pump.confidence, F(6, 10))
        /\ Len(recent_pumps) < 3
        /\ _get_active_pump_count(pumps, t) < max_pump_pairs
        /\ FLt(pump.price_change_percent, F(50, 1))

PumpSignal(symbol, trigger_price, current_price, price_change_percent, volume_change, order_book_imbalance, confidence, timestamp) ==
    [symbol |-> symbol, trigger_price |-> trigger_price, current_price |-> current_price,
     price_change_percent |-> price_change_percent, volume_change |-> volume_change,
     order_book_imbalance |-> order_book_imbalance, confidence |-> confidence,
     timestamp |-> timestamp, is_valid |-> TRUE]

\* the detector's state after detect_pump, and what it returned
Detected(history, pumps, pump) == [history |-> history, pumps |-> pumps, pump |-> pump]

\* detect_pump, lines 110-174, for one symbol: the market feed holds the
\* summary (None when unavailable) and the order book
detect_pump(symbol, market, history, pumps, t) ==
    IF market.summary = None THEN Detected(history, pumps, None)
    ELSE
    LET current_price == Val(market.summary).current_price
        current_volume == Val(market.summary).volume_24h
        updated == _update_price_history(history, current_price, current_volume, t)
        price_change == _calculate_price_change(updated)
        volume_change == _calculate_volume_change(updated)
        orderbook_imbalance == _analyze_orderbook(market.orderbook)
        confidence == _calculate_confidence(price_change, volume_change, orderbook_imbalance)
        pump_signal == PumpSignal(symbol, updated[Len(updated) - 1].price, current_price,
                                  FMul(price_change, F(100, 1)), volume_change,
                                  orderbook_imbalance, confidence, t)
        is_valid == _validate_pump_signal(pump_signal, pumps, t)
    IN  IF Len(updated) < 3 THEN Detected(updated, pumps, None)
        ELSE IF PriceChangeRaises(updated) THEN Detected(updated, pumps, None)
        ELSE IF FLt(price_change, price_threshold) THEN Detected(updated, pumps, None)
        ELSE IF FLt(volume_change, volume_multiplier) THEN Detected(updated, pumps, None)
        ELSE IF FLt(orderbook_imbalance, orderbook_threshold)
             THEN Detected(updated, pumps, None)
        ELSE LET validated == [pump_signal EXCEPT !.is_valid = is_valid]
             IN  Detected(updated,
                          IF is_valid THEN Append(pumps, validated) ELSE pumps,
                          Some(validated))

\* the detector's state after scan_markets, and the list it returned
Scanned(history, pumps, detected) ==
    [price_history |-> history, pump_history |-> pumps, detected_pumps |-> detected]

\* scan_markets, lines 80-95: one symbol of the loop
ScanSymbol(before, symbol, found) ==
    Scanned([before.price_history EXCEPT ![symbol] = found.history],
            found.pumps,
            IF found.pump # None /\ Val(found.pump).is_valid
            THEN Append(before.detected_pumps, Val(found.pump))
            ELSE before.detected_pumps)

DetectNext(before, symbol, market, t) ==
    ScanSymbol(before, symbol,
               detect_pump(symbol, market, before.price_history[symbol],
                           before.pump_history, t))

\* scan_markets, lines 78-98: the first k symbols of the list have been
\* scanned
RECURSIVE ScanFirst(_, _, _, _, _, _)
ScanFirst(k, symbols, feeds, history, pumps, t) ==
    IF k = 0 THEN Scanned(history, pumps, <<>>)
    ELSE DetectNext(ScanFirst(k - 1, symbols, feeds, history, pumps, t),
                    symbols[k], feeds[symbols[k]], t)

scan_markets(symbols, feeds, history, pumps, t) ==
    ScanFirst(Len(symbols), symbols, feeds, history, pumps, t)

(***************************************************************************)
(* core/order_executor.py: the position book                               *)
(* A position is [side, size, entry_price]; the book maps every symbol to  *)
(* its position or to None.                                                *)
(***************************************************************************)
Position(side, size, entry_price) ==
    [side |-> side, size |-> size, entry_price |-> entry_price]

PositionSide(order_side) == IF order_side = "buy" THEN "long" ELSE "short"

\* the result of a change to the book: the book, and the P&L of the positions
\* it closed
Book(book, closed) == [positions |-> book, closed |-> closed]

\* _close_position, lines 326-347
_close_position(book, symbol, exit_price) ==
    IF book[symbol] = None THEN Book(book, <<>>)
    ELSE LET position == Val(book[symbol])
             pnl == IF position.side = "long"
                    THEN FMul(FSub(exit_price, position.entry_price), position.size)
                    ELSE FMul(FSub(position.entry_price, exit_price), position.size)
         IN  Book([book EXCEPT ![symbol] = None], <<pnl>>)

\* a variant that takes the plain mean of the two prices
Increased_unweighted(position, filled_amount, average_price) ==
    Position(position.side, FAdd(position.size, filled_amount),
             FDiv(FAdd(position.entry_price, average_price), F(2, 1)))

\* the existing position after an order on its own side, lines 247-252
Increased(position, filled_amount, average_price) ==
    LET total_cost == FAdd(FMul(position.size, position.entry_price),
                           FMul(filled_amount, average_price))
        total_size == FAdd(position.size, filled_amount)
    IN  Position(position.side, total_size, FDiv(total_cost, total_size))

\* _create_position, lines 223-262, for a filled order
_create_position(book, symbol, order_side, filled_amount, average_price) ==
    IF book[symbol] = None
    THEN Book([book EXCEPT ![symbol] =
                   Some(Position(PositionSide(order_side), filled_amount, average_price))],
              <<>>)
    ELSE LET position == Val(book[symbol])
         IN  IF position.side = PositionSide(order_side)
             THEN Book([book EXCEPT ![symbol] =
                            Some(Increased(position, filled_amount, average_price))], <<>>)
             ELSE IF FGe(filled_amount, position.size)
                  THEN _close_position(book, symbol, average_price)
                  ELSE Book([book EXCEPT ![symbol] =
                                 Some(Position(position.side,
                                               FSub(position.size, filled_amount),
                                               position.entry_price))], <<>>)

\* place_order, lines 128-138: the book after the order the exchange answered
\* with outcome; the fill is the whole amount at the signal's price
Filled(book, sig, placed) ==
    IF placed # None /\ Val(placed).status = "filled"
    THEN _create_position(book, sig.symbol, sig.direction, sig.quantity, sig.price)
    ELSE Book(book, <<>>)

(***************************************************************************)
(* core/order_executor.py: the Order objects.  The k-th order created has  *)
(* the id order_k and is orders[k]; stored says that place_order has put   *)
(* it into OrderExecutor.orders.                                           *)
(***************************************************************************)
\* _create_order_from_signal, lines 163-177
_create_order_from_signal(sig) ==
    [symbol |-> sig.symbol, side |-> sig.direction, amount |-> sig.quantity,
     price |-> sig.price, status |-> "pending", filled_amount |-> F(0, 1),
     average_price |-> F(0, 1), stored |-> FALSE]

\* what create_market_order returned: None when it raised, else the status,
\* the filled amount and the average price
ExchangeOrder(status, filled, average) ==
    Some([status |-> status, filled |-> filled, average |-> average])

\* place_order, lines 124-150, for the order just created and the answer of
\* the exchange: the order afterwards
Placed(placing, exchange_order) ==
    IF exchange_order = None THEN [placing EXCEPT !.status = "failed"]
    ELSE IF Val(exchange_order).status = "closed"
         THEN [placing EXCEPT !.status = "filled",
                              !.filled_amount = Val(exchange_order).filled,
                              !.average_price = Val(exchange_order).average,
                              !.stored = TRUE]
         ELSE [placing EXCEPT !.status = "open", !.stored = TRUE]

\* the orders check_open_orders asks the exchange about, line 371
Unsettled(book) ==
    {id \in 1..Len(book) : book[id].stored /\ book[id].status \in {"open", "pending"}}

\* check_open_orders, lines 368-389: fetched[id] is the status fetch_order
\* returned for the order ("error" when it raised)
check_open_orders(book, fetched) ==
    [id \in 1..Len(book) |->
        IF id \notin Unsettled(book) THEN book[id]
        ELSE IF fetched[id] = "closed"
             THEN [book[id] EXCEPT !.status = "filled",
                                   !.filled_amount = book[id].amount,
                                   !.average_price = book[id].price]
        ELSE IF fetched[id] = "canceled" THEN [book[id] EXCEPT !.status = "cancelled"]
        ELSE book[id]]

\* a variant of cancel_order that marks the order whatever the exchange did
cancel_order_regardless(book, id, accepted) ==
    [book EXCEPT ![id].status = "cancelled"]

\* cancel_order, lines 391-407, for a stored order: accepted is FALSE when
\* exchange.cancel_order raised
cancel_order(book, id, accepted) ==
    IF accepted THEN [book EXCEPT ![id].status = "cancelled"] ELSE book

\* the orders cancel_all_orders cancels, line 413
OpenOrders(book) == {id \in 1..Len(book) : book[id].stored /\ book[id].status = "open"}

\* cancel_all_orders, lines 409-418: the first k orders have been visited
RECURSIVE CancelFirst(_, _, _)
CancelFirst(k, book, accepted) ==
    IF k = 0 THEN book
    ELSE LET before == CancelFirst(k - 1, book, accepted)
         IN  IF k \in OpenOrders(before) THEN cancel_order(before, k, accepted[k])
             ELSE before

cancel_all_orders(book, accepted) == CancelFirst(Len(book), book, accepted)

\* the exchange cancels only an order that is open on its side: one that it
\* has reported filled or cancelled is unknown to cancel_order, which raises
ExchangeCancels(placed) == IF placed.status = "open" THEN {TRUE, FALSE} ELSE {FALSE}

(***************************************************************************)
(* RiskManager.validate_signal, lines 31-77, as one call                   *)
(***************************************************************************)
ValidateFrom5(sig, md, trades, t) ==
    _check_trade_frequency(_check_sufficient_balance(_adjust_for_volatility(sig, md)),
                           trades, t)

ValidateFrom3(sig, md, trades, t) ==
    IF ~sig.is_valid THEN sig
    ELSE ValidateFrom5(_check_correlation_limits(sig), md, trades, t)

ValidateFrom2(sig, md, pnl, trades, t) ==
    IF ~sig.is_valid THEN sig
    ELSE ValidateFrom3(_check_drawdown_limit(_calculate_position_size(sig, md, pnl), pnl),
                       md, trades, t)

validate_signal(sig, md, pnl, trades, t) ==
    IF ~sig.is_valid THEN sig
    ELSE ValidateFrom2(_check_portfolio_exposure(sig), md, pnl, trades, t)

(***************************************************************************)
(* PumpDetector.create_pump_signal, lines 333-376                          *)
(***************************************************************************)
\* config/strategies.py, the strategy that uses the pump detector
pump_up_percent == F(3, 10)

pump_order_multiplier == F(5, 2)

create_pump_signal(pump, t) ==
    LET target_price == FMul(pump.current_price,
                             FAdd(F(1, 1), FDiv(pump_up_percent, F(100, 1))))
        stop_loss == FMul(pump.current_price, F(97, 100))
        an == [symbol |-> pump.symbol, direction |-> "bullish",
               confidence |-> pump.confidence, entry_price |-> pump.current_price,
               target_price |-> target_price, stop_loss |-> stop_loss,
               position_size |-> FMul(pump_order_multiplier, F(1, 10)),
               risk_score |-> 7, is_valid |-> TRUE]
    IN  [TradingSignal(pump.symbol, "buy", "long", pump.current_price, F(0, 1),
                       stop_loss, target_price, pump.confidence, an, t)
         EXCEPT !.strength = pump.confidence]

(***************************************************************************)
(* Bounds and input sets                                                   *)
(***************************************************************************)
MaxPnlLen == 2

MaxTrades == 2

MaxSignals == 2

MaxTicks == 1

P(n) == F(n, 1)

Snapshot(symbol, change, rsi, volume) ==
    [symbol |-> symbol, current_price |-> P(100), price_change_24h |-> change,
     rsi_5m |-> rsi, volume_ratio |-> volume]

\* MarketDataManager.get_market_summary results
Snapshots ==
    { Snapshot("BTC/USDT", P(2), P(55), P(1)),
      Snapshot("ETH/USDT", P(-8), P(55), P(1)),
      Snapshot("BTC/USDT", P(0), P(75), P(1)),
      Snapshot("ETH/USDT", P(2), P(25), F(8, 10)) }

Fields(direction, confidence, target_price, stop_loss, position_size, risk_score) ==
    [direction |-> direction, confidence |-> confidence,
     entry_price |-> JNum(100, 1), target_price |-> target_price,
     stop_loss |-> stop_loss, position_size |-> position_size,
     risk_score |-> risk_score]

BaseFields ==
    Fields(JStr("bullish"), JNum(8, 10), JNum(106, 1), JNum(97, 1), JNum(15, 100), JNum(4, 1))

Directions ==
    {JMissing, JNull, JNum(1, 1), JStr("bullish"), JStr("BULLISH"), JStr("Bearish"),
     JStr("neutral"), JStr("sideways")}

Confidences ==
    {JMissing, JNull, JNum(8, 10), JNum(65, 100), JNum(5, 10), JNum(1, 1), JNum(15, 10),
     JNum(-2, 10), JNum(0, 0), JStr("0.8"), JStr("nan"), JStr("high")}

RiskScores ==
    {JMissing, JNull, JNum(4, 1), JNum(47, 10), JNum(0, 1), JNum(11, 1), JNum(1, 0),
     JStr("7"), JStr("4.7")}

Levels ==
    {JMissing, JNum(0, 1), JNum(90, 1), JNum(97, 1), JNum(98, 1), JNum(101, 1),
     JNum(103, 1), JNum(106, 1), JNum(120, 1), JStr("inf"), JStr("nan")}

Sizes == {JMissing, JNum(15, 100), JNum(1, 1), JNum(-1, 10), JStr("big")}

FieldSets ==
    {Fields(d, c, JNum(106, 1), JNum(97, 1), JNum(15, 100), JNum(4, 1)) :
        d \in Directions, c \in Confidences}
    \cup
    {Fields(JStr("bullish"), JNum(8, 10), JNum(106, 1), JNum(97, 1), ps, r) :
        ps \in Sizes, r \in RiskScores}
    \cup
    {Fields(d, JNum(8, 10), tp, sl, JNum(15, 100), JNum(4, 1)) :
        d \in {JStr("bullish"), JStr("Bearish")}, tp \in Levels, sl \in Levels}

JsonObject == <<"{", "m", "}">>

Texts ==
    { <<>>, <<" ">>, <<"t">>, JsonObject, <<"{", "}">>, <<"{", "x", "}">>,
      <<"{", "m">>, <<"m", "}">>, <<"}", "m", "{">>,
      <<"FENCEJSON", " ", "{", "m", "}", " ", "FENCE">>,
      <<" ", "FENCE", "{", "m", "}", "FENCE", " ">>,
      <<"FENCEJSON", "FENCEJSON", "{", "m", "}">>,
      <<"t", "{", " ", "m", " ", "}", "t">>,
      <<"{", "m", "}", "t", "{", "m", "}">>,
      <<"{", "{", "m", "}", "}">> }

Reply(call, text, fields) == [call |-> call, text |-> text, fields |-> fields]

\* every outcome of the advisory call
Replies ==
    {Reply("ok", JsonObject, f) : f \in FieldSets}
    \cup {Reply("ok", t, BaseFields) : t \in Texts}
    \cup {Reply(c, <<>>, AllMissing) : c \in {"http_error", "timeout", "error"}}

\* the outcomes used in the trading loop
LoopReplies ==
    { Reply("ok", JsonObject, BaseFields),
      Reply("ok", JsonObject,
            Fields(JStr("Bearish"), JNum(65, 100), JNum(90, 1), JNum(103, 1),
                   JNum(15, 100), JNum(4, 1))),
      Reply("ok", JsonObject,
            Fields(JStr("bullish"), JStr("nan"), JNum(101, 1), JNum(98, 1),
                   JNum(1, 1), JNum(4, 1))),
      Reply("timeout", <<>>, AllMissing) }

\* an advisory model that is nearly certain, or fairly certain, or silent
ConfidentReplies ==
    { Reply("ok", JsonObject,
            Fields(JStr("bullish"), JNum(95, 100), JNum(106, 1), JNum(97, 1),
                   JNum(15, 100), JNum(4, 1))),
      Reply("ok", JsonObject, BaseFields),
      Reply("timeout", <<>>, AllMissing) }

\* MLPredictor.predict_trade_success: None stands for an untrained model
MLPredictions == {None, Some(F(3, 10)), Some(F(9, 10))}

SentimentScores == {F(-8, 10), F(0, 1), F(8, 10)}

\* the realised P&L of a logged trade; None for a trade without 'pnl'
TradePnls ==
    {None, Some(1000), Some(-50), Some(-80), Some(-90), Some(-100), Some(-120), Some(-160)}

\* performance metrics handed to the Kelly refiner
Metrics(present, total_trades, win_rate, avg_win, avg_loss, numpy) ==
    [present |-> present, total_trades |-> total_trades, win_rate |-> win_rate,
     avg_win |-> avg_win, avg_loss |-> avg_loss, numpy |-> numpy]

NoMetrics == Metrics(FALSE, 0, F(1, 2), P(0), P(0), FALSE)

LoopMetrics ==
    { NoMetrics,
      Metrics(TRUE, 9, F(6, 10), P(1000), P(-160), TRUE),
      Metrics(TRUE, 12, F(1, 2), P(100), P(-100), TRUE),
      Metrics(TRUE, 20, F(95, 100), P(1000), P(-1), TRUE) }

\* OrderExecutor().get_balance(): None when it fails
Balances == {None, Some(P(0)), Some(P(2000))}

\* signals handed to validate_signal by a direct caller, built as the test
\* code of risk_manager.py builds them
DirectAnalysis(symbol, price) ==
    [symbol |-> symbol, direction |-> "bullish", confidence |-> F(75, 100),
     entry_price |-> price, target_price |-> FMul(price, F(106, 100)),
     stop_loss |-> FMul(price, F(97, 100)), position_size |-> F(15, 100),
     risk_score |-> 5, is_valid |-> TRUE]

DirectSignal(symbol, price, quantity) ==
    TradingSignal(symbol, "buy", "long", price, quantity, FMul(price, F(97, 100)),
                  FMul(price, F(106, 100)), F(75, 100), DirectAnalysis(symbol, price), 0)

DirectSignals ==
    { DirectSignal("BTC/USDT", P(100), F(1, 10)),
      DirectSignal("BTC/USDT", P(100), P(100)),
      DirectSignal("ETH/USDT", P(0), F(1, 10)),
      [DirectSignal("BTC/USDT", P(100), F(1, 10)) EXCEPT !.analysis.position_size = P(1)],
      [DirectSignal("ETH/USDT", P(100), F(1, 10)) EXCEPT !.is_valid = FALSE] }

\* the latest minute a scan is made at
MaxMinutes == 8

\* the symbols handed to scan_markets
PumpPairs == <<"BTC/USDT", "ETH/USDT">>

PumpSymbols == {PumpPairs[i] : i \in 1..Len(PumpPairs)}

\* a list select_best_coins (core/coin_selector.py, lines 39-110) returns: it
\* holds up to limit = 10 pairs, here one more than MAX_POSITIONS
SelectedPairs ==
    <<"BTC/USDT", "ETH/USDT", "BNB/USDT", "SOL/USDT", "XRP/USDT", "ADA/USDT">>

\* every symbol the bot can come to trade
Symbols == PumpSymbols \cup {SelectedPairs[i] : i \in 1..Len(SelectedPairs)}

\* what the exchange answers for one symbol during a scan: the summary of
\* get_market_summary and the volumes of the order book
Market(price, volume, bids, asks) ==
    [summary |-> Some([current_price |-> P(price), volume_24h |-> P(volume)]),
     orderbook |-> Some([bids |-> P(bids), asks |-> P(asks)])]

NoMarket == [summary |-> None, orderbook |-> None]

Markets ==
    { Market(100, 10, 50, 50), Market(103, 30, 65, 35), Market(102, 30, 65, 35),
      Market(103, 29, 65, 35), Market(103, 30, 64, 36), Market(110, 50, 100, 0),
      Market(160, 50, 100, 0), [Market(110, 50, 100, 0) EXCEPT !.orderbook = None],
      NoMarket }

QuietMarkets == {Market(100, 10, 50, 50), Market(110, 50, 100, 0)}

MarketFeeds ==
    {[symbol \in PumpSymbols |-> IF symbol = "BTC/USDT" THEN m ELSE q] :
        m \in Markets, q \in QuietMarkets}

\* the minutes between two scans
ScanIntervals == {2, 5}

\* a market that keeps moving, scanned up to MaxRallyMinutes
RallyIntervals == {2}

MaxRallyMinutes == 12

\* what the exchange answers for a symbol whose last sample is known: the
\* price and the volume stay (flat), or the price rises by 10 and the volume
\* is 5 times the last one with buyers only in the book (pump), or the price
\* rises by 3 and the volume triples with 65% buyers (weak), or the price
\* rises by 60 (spike)
RallyMarket(history, move) ==
    LET price == IF history = <<>> THEN P(100) ELSE history[Len(history)].price
        volume == IF history = <<>> THEN P(10) ELSE history[Len(history)].volume
        Answer(rise, factor, bids, asks) ==
            [summary |-> Some([current_price |-> FAdd(price, P(rise)),
                               volume_24h |-> FMul(volume, P(factor))]),
             orderbook |-> Some([bids |-> P(bids), asks |-> P(asks)])]
    IN  CASE move = "flat" -> Answer(0, 1, 50, 50)
          [] move = "pump" -> Answer(10, 5, 100, 0)
          [] move = "weak" -> Answer(3, 3, 65, 35)
          [] move = "spike" -> Answer(60, 5, 100, 0)

RallyMoves(symbol) ==
    IF symbol = "BTC/USDT" THEN {"flat", "pump", "weak", "spike"} ELSE {"pump"}

RallyFeeds(history) ==
    {[symbol \in PumpSymbols |->
          RallyMarket(history[symbol], IF symbol = "BTC/USDT" THEN btc ELSE eth)] :
        btc \in RallyMoves("BTC/USDT"), eth \in RallyMoves("ETH/USDT")}

\* the orders place_order is called for
MaxOrders == 2

\* the signals handed to place_order
ExecutorSignal(symbol, direction, quantity) ==
    [DirectSignal(symbol, P(100), P(quantity)) EXCEPT !.direction = direction]

ExecutorSignals ==
    { ExecutorSignal("BTC/USDT", "buy", 1), ExecutorSignal("BTC/USDT", "buy", 2),
      ExecutorSignal("BTC/USDT", "sell", 1), ExecutorSignal("BTC/USDT", "sell", 2),
      ExecutorSignal("ETH/USDT", "buy", 1),
      [ExecutorSignal("ETH/USDT", "buy", 1) EXCEPT !.is_valid = FALSE] }

\* what the exchange makes of the order: nothing (it raised), accepted, or
\* filled whole at the order's price or 10 above
ExchangeOrders(placing) ==
    { None, ExchangeOrder("open", F(0, 1), F(0, 1)),
      ExchangeOrder("closed", placing.amount, placing.price),
      ExchangeOrder("closed", placing.amount, FAdd(placing.price, P(10))) }

\* the trading cycles run
MaxCycles == 3

\* config.ANALYSIS_INTERVAL_SECONDS as main.py sets it, in minutes
ANALYSIS_INTERVAL == 3

\* config.TRADING_PAIRS as config/settings.py sets it
TRADING_PAIRS == PumpPairs

\* main.py, lines 98-106: the bot is run with a Telegram token and chat
TelegramConfigured == TRUE

\* the minutes between the scans of two cycles.  The second cycle is due one
\* interval after the schedule was set up (line 211), which is less than an
\* interval after a first scan that came late; every later cycle starts a
\* whole interval after its predecessor
CycleIntervals(count) ==
    IF count = 0 THEN {0}
    ELSE IF count = 1 THEN {1, ANALYSIS_INTERVAL}
    ELSE {ANALYSIS_INTERVAL}

\* what the exchange answers during one cycle
Feed(btc, eth) == [symbol \in PumpSymbols |-> IF symbol = "BTC/USDT" THEN btc ELSE eth]

BotFeeds ==
    { Feed(Market(100, 10, 50, 50), Market(100, 10, 50, 50)),
      Feed(Market(106, 50, 100, 0), Market(106, 50, 100, 0)),
      Feed(NoMarket, Market(100, 10, 50, 50)) }

\* get_market_summary for a symbol the exchange answers for
BotSnapshot(symbol, market) ==
    [Snapshot(symbol, P(2), P(55), P(1))
     EXCEPT !.current_price = Val(market.summary).current_price]

\* the advisory replies of the running bot: a recommendation without price
\* levels, or no reply
BotFields(direction) ==
    Fields(JStr(direction), JNum(8, 10), JMissing, JMissing, JNum(15, 100), JNum(4, 1))

BotReplies ==
    { Reply("ok", JsonObject, BotFields("bullish")),
      Reply("ok", JsonObject, BotFields("bearish")),
      Reply("timeout", <<>>, AllMissing) }

\* a market order is executed at once or not placed
BotExchange == {"closed", "rejected"}

\* generate_signal called again and again: the valid signals kept, the
\* minutes between two calls and the last minute a call is made at
MaxHistory == 12

CallIntervals == {0, 30}

MaxCallMinutes == 90

\* the market at the calls: a snapshot that passes the checklist, and one
\* whose volume ratio fails it
FrequentSnapshots ==
    {Snapshot("BTC/USDT", P(2), P(55), P(1)), Snapshot("BTC/USDT", P(2), P(55), F(1, 2))}

FrequentReplies == {reply \in BotReplies : reply.fields.direction = JStr("bullish")}

(***************************************************************************)
(* The state machine                                                       *)
(***************************************************************************)
Init ==
    /\ pc = "idle"
    /\ market_data = None
    /\ response = None
    /\ analysis = None
    /\ signal = None
    /\ entered = None
    /\ caller = "none"
    /\ order = None
    /\ signal_history = <<>>
    /\ now = 0
    /\ daily_pnl = <<>>
    /\ trade_history = <<>>
    /\ kelly_in = None
    /\ kelly_out = None
    /\ price_history = [symbol \in Symbols |-> <<>>]
    /\ pump_history = <<>>
    /\ detected_pumps = <<>>
    /\ markets = None
    /\ bot_pc = "constructed"
    /\ cycle_count = 0
    /\ cycle_pumps = <<>>
    /\ todo = <<>>
    /\ analysed = {}
    /\ positions = [symbol \in Symbols |-> None]
    /\ realized = <<>>
    /\ trading_pairs = TRADING_PAIRS
    /\ orders = <<>>
    /\ closing = [symbol \in Symbols |-> "none"]

components == <<signal_history, now, daily_pnl, trade_history>>

kelly == <<kelly_in, kelly_out>>

detector == <<price_history, pump_history, detected_pumps, markets>>

bot == <<bot_pc, cycle_count, cycle_pumps, todo, analysed, positions, realized>>

settings == <<trading_pairs>>

executor == <<orders, closing>>

\* the clock advances by an hour between calls
Tick ==
    /\ pc = "idle"
    /\ now < 60 * MaxTicks
    /\ now' = now + 60
    /\ UNCHANGED <<pc, market_data, response, analysis, signal, entered, caller,
                   order, signal_history, daily_pnl, trade_history, kelly, detector, bot,
                   settings, executor>>

\* RiskManager.log_trade
LogTrade ==
    /\ pc = "idle"
    /\ Len(trade_history) < MaxTrades
    /\ \E pnl \in TradePnls :
          /\ pnl # None => Len(daily_pnl) < MaxPnlLen
          /\ trade_history' = Append(trade_history, [timestamp |-> now])
          /\ daily_pnl' = IF pnl # None THEN Append(daily_pnl, Val(pnl)) ELSE daily_pnl
    /\ UNCHANGED <<pc, market_data, response, analysis, signal, entered, caller,
                   order, signal_history, now, kelly, detector, bot, settings, executor>>

\* analyze_and_trade, lines 308-322: the snapshot is fetched and
\* generate_signal is called
StartAnalyzeAndTrade ==
    /\ pc = "idle"
    /\ Len(signal_history) < MaxSignals
    /\ \E md \in Snapshots : market_data' = Some(md)
    /\ pc' = "generate"
    /\ caller' = "analyze_and_trade"
    /\ UNCHANGED <<response, analysis, signal, entered, order, components, kelly, detector, bot,
                   settings, executor>>

\* generate_signal, line 71: DeepSeekAnalyzer.analyze_market
AnalyzeMarketOf(replies) ==
    /\ pc = "generate"
    /\ \E r \in replies :
          /\ response' = Some(r)
          /\ analysis' = Some(analyze_market(r, Val(market_data)))
    /\ pc' = "analysed"
    /\ UNCHANGED <<market_data, signal, entered, caller, order, components, kelly, detector, bot,
                   settings, executor>>

\* generate_signal, lines 73-156
BuildSignal ==
    /\ pc = "analysed"
    /\ \E result \in {generate_signal(Val(analysis), Val(market_data),
                                       signal_history, now)} :
           /\ signal' = result
           /\ signal_history' = AppendValid(signal_history, result)
    /\ pc' = "generated"
    /\ UNCHANGED <<market_data, response, analysis, entered, caller, order,
                   now, daily_pnl, trade_history, kelly, detector, bot,
                   settings, executor>>

\* analyze_and_trade, lines 324-326
NoSignal ==
    /\ pc = "generated"
    /\ signal = None
    /\ pc' = "done"
    /\ UNCHANGED <<market_data, response, analysis, signal, entered, caller, order,
                   components, kelly, detector, bot, settings, executor>>

\* analyze_and_trade, lines 332-335: the ML blend
MLPrediction ==
    /\ pc = "generated"
    /\ signal # None
    /\ \E ml \in MLPredictions :
          signal' = IF ml = None THEN signal
                    ELSE Some([Val(signal) EXCEPT !.confidence =
                                 FDiv(FAdd(Val(signal).confidence, Val(ml)), P(2))])
    /\ pc' = "sentiment"
    /\ UNCHANGED <<market_data, response, analysis, entered, caller, order,
                   components, kelly, detector, bot, settings, executor>>

\* analyze_and_trade, lines 338-343: the sentiment multipliers
SentimentAdjusted(sig, score) ==
    IF FLt(score, F(-5, 10)) /\ sig.direction = "buy"
    THEN [sig EXCEPT !.confidence = FMul(sig.confidence, F(8, 10))]
    ELSE IF FGt(score, F(5, 10)) /\ sig.direction = "buy"
         THEN [sig EXCEPT !.confidence = FMul(sig.confidence, F(11, 10))]
         ELSE sig

SentimentAdjust ==
    /\ pc = "sentiment"
    /\ \E score \in SentimentScores :
          signal' = Some(SentimentAdjusted(Val(signal), score))
    /\ pc' = "risk"
    /\ UNCHANGED <<market_data, response, analysis, entered, caller, order,
                   components, kelly, detector, bot, settings, executor>>

\* a caller other than the trading loop invokes RiskManager.validate_signal
ValidateSignalCall ==
    /\ pc = "idle"
    /\ \E sig \in DirectSignals, md \in Snapshots :
          /\ signal' = Some(sig)
          /\ market_data' = Some(md)
    /\ caller' = "direct"
    /\ pc' = "risk"
    /\ UNCHANGED <<response, analysis, entered, order, components, kelly, detector, bot,
                   settings, executor>>

(***************************************************************************)
(* RiskManager.validate_signal, one action per stage                       *)
(***************************************************************************)
\* lines 42-43
ValidateSignalEntry ==
    /\ pc = "risk"
    /\ pc' = IF Val(signal).is_valid THEN "exposure" ELSE "validated"
    /\ entered' = None
    /\ UNCHANGED <<market_data, response, analysis, signal, caller, order,
                   components, kelly, detector, bot, settings, executor>>

\* the signal leaves a stage: the stage is recorded with the signal that
\* entered it; a stage followed by the validity test (lines 49, 57) returns
\* an invalid signal at once
Stage(name, out, checked, next) ==
    /\ pc = name
    /\ \E staged \in {out} :
          /\ signal' = Some(staged)
          /\ pc' = IF checked /\ ~staged.is_valid THEN "validated" ELSE next
    /\ entered' = Some([stage |-> name, sig |-> Val(signal)])
    /\ UNCHANGED <<market_data, response, analysis, caller, order, components, kelly, detector, bot,
                   settings, executor>>

\* lines 48-50
CheckPortfolioExposure ==
    /\ pc = "exposure"
    /\ Stage("exposure", _check_portfolio_exposure(Val(signal)), TRUE, "sizing")

\* line 53
CalculatePositionSize ==
    /\ pc = "sizing"
    /\ Stage("sizing", _calculate_position_size(Val(signal), Val(market_data), daily_pnl),
             FALSE, "drawdown")

\* lines 56-58
CheckDrawdownLimit ==
    /\ pc = "drawdown"
    /\ Stage("drawdown", _check_drawdown_limit(Val(signal), daily_pnl), TRUE, "correlation")

\* line 61
CheckCorrelationLimits ==
    /\ pc = "correlation"
    /\ Stage("correlation", _check_correlation_limits(Val(signal)), FALSE, "volatility")

\* line 64
AdjustForVolatility ==
    /\ pc = "volatility"
    /\ Stage("volatility", _adjust_for_volatility(Val(signal), Val(market_data)),
             FALSE, "balance")

\* line 67
CheckSufficientBalance ==
    /\ pc = "balance"
    /\ Stage("balance", _check_sufficient_balance(Val(signal)), FALSE, "frequency")

\* lines 70-77
CheckTradeFrequency ==
    /\ pc = "frequency"
    /\ Stage("frequency", _check_trade_frequency(Val(signal), trade_history, now),
             FALSE, "validated")

\* validate_signal returns: analyze_and_trade drops an invalid signal (lines
\* 348-350) and refines a valid one; a direct caller is done
ValidateSignalReturn ==
    /\ pc = "validated"
    /\ pc' = IF caller = "analyze_and_trade" /\ Val(signal).is_valid THEN "kelly" ELSE "done"
    /\ entered' = None
    /\ UNCHANGED <<market_data, response, analysis, signal, caller, order,
                   components, kelly, detector, bot, settings, executor>>

\* analyze_and_trade, lines 353-357
KellySizing ==
    /\ pc = "kelly"
    /\ \E m \in LoopMetrics, b \in Balances :
          \E kelly_size \in {calculate_kelly_position_size(Val(signal), m, b)} :
              /\ kelly_in' = Some([sig |-> Val(signal), metrics |-> m, balance |-> b])
              /\ kelly_out' = Some(kelly_size)
              /\ signal' = Some([Val(signal) EXCEPT !.quantity = kelly_size])
    /\ pc' = "place"
    /\ UNCHANGED <<market_data, response, analysis, entered, caller, order, components, detector, bot,
                   settings, executor>>

\* what the exchange makes of a market order: executed at once ("closed"),
\* accepted ("open"), or no order (rejected, or ccxt raised)
ExchangeOutcomes == {"closed", "open", "rejected"}

\* OrderExecutor.place_order, lines 109-152, for the order's amount and status
place_order(sig, outcome) ==
    IF ~sig.is_valid \/ outcome = "rejected" THEN None
    ELSE Some([symbol |-> sig.symbol, side |-> sig.direction, amount |-> sig.quantity,
               status |-> IF outcome = "closed" THEN "filled" ELSE "open"])

\* analyze_and_trade, line 361
PlaceOrder ==
    /\ pc = "place"
    /\ \E outcome \in ExchangeOutcomes : order' = place_order(Val(signal), outcome)
    /\ pc' = "done"
    /\ UNCHANGED <<market_data, response, analysis, signal, entered, caller,
                   components, kelly, detector, bot, settings, executor>>

\* the call returns and its locals are gone
ReturnFrom(at) ==
    /\ pc = at
    /\ pc' = "idle"
    /\ market_data' = None
    /\ response' = None
    /\ analysis' = None
    /\ signal' = None
    /\ entered' = None
    /\ caller' = "none"
    /\ order' = None
    /\ kelly_in' = None
    /\ kelly_out' = None
    /\ UNCHANGED <<components, detector, bot, settings, executor>>

Return == ReturnFrom("done")

AnalyzeMarket == AnalyzeMarketOf(LoopReplies)

RiskGate ==
    \/ ValidateSignalEntry
    \/ CheckPortfolioExposure
    \/ CalculatePositionSize
    \/ CheckDrawdownLimit
    \/ CheckCorrelationLimits
    \/ AdjustForVolatility
    \/ CheckSufficientBalance
    \/ CheckTradeFrequency
    \/ ValidateSignalReturn

\* the calls of the trading loop and of the risk manager, at one reading of
\* the clock (the clock advances between the generate_signal calls of
\* SpecSignal, where the signal history is read against it)
Next ==
    \/ LogTrade
    \/ StartAnalyzeAndTrade
    \/ AnalyzeMarket
    \/ BuildSignal
    \/ NoSignal
    \/ MLPrediction
    \/ SentimentAdjust
    \/ ValidateSignalCall
    \/ RiskGate
    \/ KellySizing
    \/ PlaceOrder
    \/ Return

Spec == Init /\ [][Next]_vars

(***************************************************************************)
(* The trading loop with an advisory model that can be nearly certain      *)
(***************************************************************************)
AnalyzeMarketConfident == AnalyzeMarketOf(ConfidentReplies)

NextConfidence ==
    \/ StartAnalyzeAndTrade
    \/ AnalyzeMarketConfident
    \/ BuildSignal
    \/ NoSignal
    \/ MLPrediction
    \/ SentimentAdjust
    \/ RiskGate
    \/ KellySizing
    \/ PlaceOrder
    \/ Return

SpecConfidence == Init /\ [][NextConfidence]_vars

(***************************************************************************)
(* SignalGenerator.generate_signal called on its own, over every outcome   *)
(* of the advisory call                                                    *)
(***************************************************************************)
GenerateSignalCall == StartAnalyzeAndTrade

AnalyzeMarketAny == AnalyzeMarketOf(Replies)

GenerateSignalReturn == ReturnFrom("generated")

NextSignal ==
    \/ Tick
    \/ GenerateSignalCall
    \/ AnalyzeMarketAny
    \/ BuildSignal
    \/ GenerateSignalReturn

SpecSignal == Init /\ [][NextSignal]_vars

(***************************************************************************)
(* SignalGenerator.generate_signal called many times within a few hours,   *)
(* each call as one step                                                   *)
(***************************************************************************)
\* generate_signal, lines 57-156
GenerateSignal ==
    /\ pc = "idle"
    /\ Len(signal_history) < MaxHistory
    /\ \E interval \in CallIntervals, md \in FrequentSnapshots, reply \in FrequentReplies :
          /\ now + interval <= MaxCallMinutes
          /\ now' = now + interval
          /\ market_data' = Some(md)
          /\ \E result \in {generate_signal(analyze_market(reply, md), md, signal_history,
                                              now + interval)} :
                /\ signal' = result
                /\ signal_history' = AppendValid(signal_history, result)
    /\ UNCHANGED <<pc, response, analysis, entered, caller, order, daily_pnl, trade_history,
                   kelly, detector, bot, settings, executor>>

NextFrequency == GenerateSignal

SpecFrequency == Init /\ [][NextFrequency]_vars

(***************************************************************************)
(* AdvancedRiskManager.calculate_kelly_position_size called on its own     *)
(***************************************************************************)
KellyConfidences == {F(65, 100), F(8, 10), P(1), F(1045, 1000), NaN}

KellySignals ==
    {[DirectSignal("BTC/USDT", P(100), q) EXCEPT !.confidence = c] :
        q \in {P(8), P(20)}, c \in KellyConfidences}

KellyMetrics ==
    {NoMetrics}
    \cup {Metrics(TRUE, n, w, aw, al, np) :
            n \in {0, 9, 10, 20},
            w \in {P(0), F(3, 10), F(1, 2), F(95, 100), P(1)},
            aw \in {P(0), P(100), P(1000)},
            al \in {P(0), P(-1), P(-100)},
            np \in BOOLEAN}

KellyCall ==
    /\ pc = "idle"
    /\ \E sig \in KellySignals, m \in KellyMetrics, b \in Balances :
          /\ kelly_in' = Some([sig |-> sig, metrics |-> m, balance |-> b])
          /\ kelly_out' = Some(calculate_kelly_position_size(sig, m, b))
    /\ pc' = "kelly_done"
    /\ UNCHANGED <<market_data, response, analysis, signal, entered, caller, order,
                   components, detector, bot, settings, executor>>

KellyReturn == ReturnFrom("kelly_done")

NextKelly ==
    \/ KellyCall
    \/ KellyReturn

SpecKelly == Init /\ [][NextKelly]_vars

(***************************************************************************)
(* PumpDetector.scan_markets called on its own, every few minutes          *)
(***************************************************************************)
ScanMarkets ==
    /\ pc = "idle"
    /\ \E interval \in ScanIntervals, feed \in MarketFeeds :
          /\ now + interval <= MaxMinutes
          /\ now' = now + interval
          /\ markets' = Some(feed)
          /\ \E scanned \in {scan_markets(PumpPairs, feed, price_history, pump_history,
                                          now + interval)} :
                /\ price_history' = scanned.price_history
                /\ pump_history' = scanned.pump_history
                /\ detected_pumps' = scanned.detected_pumps
    /\ UNCHANGED <<pc, market_data, response, analysis, signal, entered, caller, order,
                   signal_history, daily_pnl, trade_history, kelly, bot,
                   settings, executor>>

NextPump == ScanMarkets

SpecPump == Init /\ [][NextPump]_vars

(***************************************************************************)
(* PumpDetector.scan_markets called every other minute while the market   *)
(* keeps moving, long enough for the limits on recorded pumps to be        *)
(* reached                                                                 *)
(***************************************************************************)
ScanRally ==
    /\ pc = "idle"
    /\ \E interval \in RallyIntervals, feed \in RallyFeeds(price_history) :
          /\ now + interval <= MaxRallyMinutes
          /\ now' = now + interval
          /\ markets' = Some(feed)
          /\ \E scanned \in {scan_markets(PumpPairs, feed, price_history, pump_history,
                                          now + interval)} :
                /\ price_history' = scanned.price_history
                /\ pump_history' = scanned.pump_history
                /\ detected_pumps' = scanned.detected_pumps
    /\ UNCHANGED <<pc, market_data, response, analysis, signal, entered, caller, order,
                   signal_history, daily_pnl, trade_history, kelly, bot, settings,
                   executor>>

NextRally == ScanRally

SpecRally == Init /\ [][NextRally]_vars

(***************************************************************************)
(* OrderExecutor and the panic sale called on their own: place_order (in   *)
(* two steps, the Order object and its execution), check_open_orders,      *)
(* cancel_order, cancel_all_orders and TelegramBot._execute_panic_sale     *)
(***************************************************************************)
Placing == orders # <<>> /\ orders[Len(orders)].status = "pending"

\* place_order, lines 109-117: a valid signal, the Order object is created
CreateOrder ==
    /\ ~Placing
    /\ Len(orders) < MaxOrders
    /\ \E sig \in ExecutorSignals :
          /\ sig.is_valid
          /\ orders' = Append(orders, _create_order_from_signal(sig))
    /\ UNCHANGED <<pc, market_data, response, analysis, signal, entered, caller, order,
                   components, kelly, detector, bot, settings, closing>>

\* place_order, lines 119-150: the order is sent; a filled order changes
\* the position book
ExecuteOrder ==
    /\ Placing
    /\ \E exchange_order \in ExchangeOrders(orders[Len(orders)]) :
          \E placed \in {Placed(orders[Len(orders)], exchange_order)} :
             /\ orders' = [orders EXCEPT ![Len(orders)] = placed]
             /\ \E changed \in {IF placed.status = "filled"
                                  THEN _create_position(positions, placed.symbol, placed.side,
                                                        placed.filled_amount,
                                                        placed.average_price)
                                  ELSE Book(positions, <<>>)} :
                   /\ positions' = changed.positions
                   /\ realized' = realized \o changed.closed
    /\ UNCHANGED <<pc, market_data, response, analysis, signal, entered, caller, order,
                   components, kelly, detector, bot_pc, cycle_count, cycle_pumps, todo,
                   analysed, settings, closing>>

CheckOpenOrders ==
    /\ ~Placing
    /\ Unsettled(orders) # {}
    /\ \E fetched \in [Unsettled(orders) -> {"open", "closed", "canceled", "error"}] :
          orders' = check_open_orders(orders, fetched)
    /\ UNCHANGED <<pc, market_data, response, analysis, signal, entered, caller, order,
                   components, kelly, detector, bot, settings, closing>>

CancelOrder ==
    /\ ~Placing
    /\ \E id \in 1..Len(orders) :
          /\ orders[id].stored
          /\ \E accepted \in ExchangeCancels(orders[id]) :
                orders' = cancel_order(orders, id, accepted)
    /\ UNCHANGED <<pc, market_data, response, analysis, signal, entered, caller, order,
                   components, kelly, detector, bot, settings, closing>>

CancelAllOrders ==
    /\ ~Placing
    /\ OpenOrders(orders) # {}
    /\ \E accepted \in [OpenOrders(orders) -> {TRUE, FALSE}] :
          orders' = cancel_all_orders(orders, accepted)
    /\ UNCHANGED <<pc, market_data, response, analysis, signal, entered, caller, order,
                   components, kelly, detector, bot, settings, closing>>

\* _execute_panic_sale, lines 360-435, with positions in the book: a market
\* order per position, answered with a status or not at all, then
\* positions.clear() (line 412)
ExecutePanicSale ==
    /\ ~Placing
    /\ \E symbol \in Symbols : positions[symbol] # None
    /\ \E answered \in [{symbol \in Symbols : positions[symbol] # None} -> ExchangeOutcomes] :
          closing' = [symbol \in Symbols |->
                         IF positions[symbol] # None THEN answered[symbol] ELSE "none"]
    /\ positions' = [symbol \in DOMAIN positions |-> None]
    /\ UNCHANGED <<pc, market_data, response, analysis, signal, entered, caller, order,
                   components, kelly, detector, bot_pc, cycle_count, cycle_pumps, todo,
                   analysed, realized, settings, orders>>

NextExecutor ==
    \/ CreateOrder
    \/ ExecuteOrder
    \/ CheckOpenOrders
    \/ CancelOrder
    \/ CancelAllOrders
    \/ ExecutePanicSale

SpecExecutor == Init /\ [][NextExecutor]_vars

(***************************************************************************)
(* The running bot: BINAUTOGO.start, run_trading_cycle and the Telegram    *)
(* control channel (main.py, utils/telegram_bot.py).  The ML model is not  *)
(* trained and the sentiment is neutral; PortfolioTracker holds no closed  *)
(* trade, so calculate_performance returns {}.  The limits are those of    *)
(* config/settings.py (_apply_strategy replaces some of them at start-up). *)
(***************************************************************************)
\* the asyncio event loop runs only inside loop.run_until_complete (main.py,
\* line 206); the main loop (lines 226-236) is synchronous
EventLoopRunning_threaded(at) == TRUE

EventLoopRunning(at) == at = "async_init"

InCycle == bot_pc \in {"pumps", "pairs"}

\* asyncio.create_task (lines 289 and 369) raises RuntimeError when no event
\* loop is running
NotifyRaises(placed) ==
    placed # None /\ TelegramConfigured /\ ~EventLoopRunning(bot_pc)

\* the signal after the Risk Gate and Kelly, the order and the book
Traded(sig, placed, changed) == [signal |-> sig, order |-> placed, book |-> changed]

Execute(validated, outcome, book) ==
    LET sized == [validated EXCEPT
                     !.quantity = calculate_kelly_position_size(validated, NoMetrics, None)]
        placed == place_order(sized, outcome)
    IN  Traded(sized, placed, Filled(book, sized, placed))

\* run_trading_cycle, lines 276-286, and analyze_and_trade, lines 347-361,
\* for the signal validate_signal returned
Trade(validated, outcome, book) ==
    IF ~validated.is_valid THEN Traded(validated, None, Book(book, <<>>))
    ELSE Execute(validated, outcome, book)

\* start, lines 204-206
StartAsync ==
    /\ pc = "idle"
    /\ bot_pc = "constructed"
    /\ bot_pc' = "async_init"
    /\ UNCHANGED <<pc, market_data, response, analysis, signal, entered, caller, order,
                   components, kelly, detector, cycle_count, cycle_pumps, todo, analysed,
                   positions, realized, settings, executor>>

\* start, lines 208-224: run_until_complete has returned, the jobs are
\* scheduled
FinishAsync ==
    /\ bot_pc = "async_init"
    /\ bot_pc' = "scheduled"
    /\ UNCHANGED <<pc, market_data, response, analysis, signal, entered, caller, order,
                   components, kelly, detector, cycle_count, cycle_pumps, todo, analysed,
                   positions, realized, settings, executor>>

\* TelegramBot._execute_panic_sale, lines 360-435, dispatched by the event
\* loop: whatever the closing orders do, positions.clear() (line 412)
PanicSale ==
    /\ EventLoopRunning(bot_pc)
    /\ bot_pc # "constructed"
    /\ positions' = [symbol \in DOMAIN positions |-> None]
    /\ UNCHANGED <<pc, market_data, response, analysis, signal, entered, caller, order,
                   components, kelly, detector, bot_pc, cycle_count, cycle_pumps, todo,
                   analysed, realized, settings, executor>>

\* run_trading_cycle, lines 242-256: the counter, update_positions and
\* check_open_orders (no order is open), and the pump scan
StartCycleAfter(intervals, feeds) ==
    /\ bot_pc = "scheduled"
    /\ cycle_count < MaxCycles
    /\ cycle_count' = cycle_count + 1
    /\ \E interval \in intervals, feed \in feeds :
          /\ now + interval <= MaxMinutes
          /\ now' = now + interval
          /\ markets' = Some(feed)
          /\ \E scanned \in {scan_markets(trading_pairs, feed, price_history, pump_history,
                                          now + interval)} :
                /\ price_history' = scanned.price_history
                /\ pump_history' = scanned.pump_history
                /\ detected_pumps' = scanned.detected_pumps
                /\ cycle_pumps' = scanned.detected_pumps
                /\ bot_pc' = IF scanned.detected_pumps = <<>> THEN "pairs" ELSE "pumps"
    /\ todo' = trading_pairs
    /\ analysed' = {}
    /\ UNCHANGED <<pc, market_data, response, analysis, signal, entered, caller, order,
                   signal_history, daily_pnl, trade_history, kelly, positions, realized,
                   settings, executor>>

StartCycleOf(feeds) == StartCycleAfter(CycleIntervals(cycle_count), feeds)

\* run_trading_cycle, lines 258-291: one pump of the list.  A raising
\* notification ends the cycle in the handler of line 303
HandlePumpOf(exchange) ==
    /\ bot_pc = "pumps"
    /\ cycle_pumps # <<>>
    /\ \E pump \in {Head(cycle_pumps)} :
          \E md \in {BotSnapshot(pump.symbol, Val(markets)[pump.symbol])} :
          \E validated \in {validate_signal(create_pump_signal(pump, now), md, daily_pnl,
                                            trade_history, now)} :
          \E outcome \in exchange :
              \E traded \in {Trade(validated, outcome, positions)} :
                 /\ market_data' = Some(md)
                 /\ signal' = Some(traded.signal)
                 /\ order' = traded.order
                 /\ positions' = traded.book.positions
                 /\ realized' = realized \o traded.book.closed
                 /\ IF NotifyRaises(traded.order)
                    THEN cycle_pumps' = <<>> /\ todo' = <<>> /\ bot_pc' = "scheduled"
                    ELSE /\ cycle_pumps' = Tail(cycle_pumps)
                         /\ todo' = todo
                         /\ bot_pc' = IF Tail(cycle_pumps) = <<>> THEN "pairs" ELSE "pumps"
    /\ UNCHANGED <<pc, response, analysis, entered, caller, components, kelly, detector,
                   cycle_count, analysed, settings, executor>>

\* run_trading_cycle, lines 294-296: analyze_and_trade for the next pair
AnalyzeAndTradeOf(replies, exchange) ==
    /\ bot_pc = "pairs"
    /\ todo # <<>>
    /\ LET symbol == Head(todo)
           market == Val(markets)[symbol]
       IN  IF market.summary = None
           THEN /\ market_data' = None
                /\ signal' = None
                /\ order' = None
                /\ UNCHANGED <<signal_history, positions, realized>>
           ELSE \E reply \in replies, md \in {BotSnapshot(symbol, market)} :
                   \E result \in {generate_signal(analyze_market(reply, md), md,
                                                  signal_history, now)} :
                      /\ market_data' = Some(md)
                      /\ signal_history' = AppendValid(signal_history, result)
                      /\ IF result = None
                         THEN /\ signal' = None
                              /\ order' = None
                              /\ UNCHANGED <<positions, realized>>
                         ELSE \E validated \in {validate_signal(Val(result), md, daily_pnl,
                                                                trade_history, now)} :
                                 \E outcome \in exchange :
                                    \E traded \in {Trade(validated, outcome, positions)} :
                                       /\ signal' = Some(traded.signal)
                                       /\ order' = traded.order
                                       /\ positions' = traded.book.positions
                                       /\ realized' = realized \o traded.book.closed
    /\ analysed' = analysed \cup {Head(todo)}
    /\ todo' = Tail(todo)
    /\ UNCHANGED <<pc, response, analysis, entered, caller, now, daily_pnl, trade_history,
                   kelly, detector, bot_pc, cycle_count, cycle_pumps,
                   settings, executor>>

\* run_trading_cycle, lines 299-301: the cycle is over, its locals are gone
FinishCycle ==
    /\ bot_pc = "pairs"
    /\ todo = <<>>
    /\ bot_pc' = "scheduled"
    /\ market_data' = None
    /\ signal' = None
    /\ order' = None
    /\ UNCHANGED <<pc, response, analysis, entered, caller, components, kelly, detector,
                   cycle_count, cycle_pumps, todo, analysed, positions, realized,
                   settings, executor>>

StartCycle == StartCycleOf(BotFeeds)

HandlePump == HandlePumpOf(BotExchange)

AnalyzeAndTrade == AnalyzeAndTradeOf(BotReplies, BotExchange)

NextBot ==
    \/ StartAsync
    \/ FinishAsync
    \/ PanicSale
    \/ StartCycle
    \/ HandlePump
    \/ AnalyzeAndTrade
    \/ FinishCycle

SpecBot == Init /\ [][NextBot]_vars

(***************************************************************************)
(* The running bot on an exchange that answers every request and fills     *)
(* every order, with an advisory model that always recommends a direction  *)
(***************************************************************************)
ControlFeeds == {feed \in BotFeeds : \A symbol \in PumpSymbols : feed[symbol] # NoMarket}

ControlReplies == {reply \in BotReplies : reply.call = "ok"}

StartCycleAnswered == StartCycleOf(ControlFeeds)

HandlePumpFilled == HandlePumpOf({"closed"})

AnalyzeAndTradeFilled == AnalyzeAndTradeOf(ControlReplies, {"closed"})

NextControl ==
    \/ StartAsync
    \/ FinishAsync
    \/ PanicSale
    \/ StartCycleAnswered
    \/ HandlePumpFilled
    \/ AnalyzeAndTradeFilled
    \/ FinishCycle

SpecControl == Init /\ [][NextControl]_vars

(***************************************************************************)
(* The polling loop: the running bot whose cycles, and so the pump scans   *)
(* of a symbol, are at least ANALYSIS_INTERVAL apart.  The main loop       *)
(* (main.py, lines 226-236) calls schedule.run_pending for ever, so a      *)
(* step that is possible is eventually taken.                              *)
(***************************************************************************)
PollingIntervals ==
    IF cycle_count = 0 THEN {0} ELSE {ANALYSIS_INTERVAL, ANALYSIS_INTERVAL + 1}

StartCyclePolled == StartCycleAfter(PollingIntervals, ControlFeeds)

NextPolling ==
    \/ StartAsync
    \/ FinishAsync
    \/ StartCyclePolled
    \/ AnalyzeAndTradeFilled
    \/ FinishCycle

\* analyze_and_trade can run whenever a pair of the cycle is left; it has
\* no other condition (main.py, lines 294-296)
AnalysisPending == bot_pc = "pairs" /\ todo # <<>>

\* the loop does not stop inside a cycle: a pending analysis is run
AnalysisFair == []<>(~AnalysisPending) \/ []<><<AnalyzeAndTradeFilled>>_vars

SpecPolling ==
    /\ Init /\ [][NextPolling]_vars
    /\ WF_vars(StartAsync) /\ WF_vars(FinishAsync)
    /\ WF_vars(StartCyclePolled) /\ WF_vars(FinishCycle)
    /\ AnalysisFair

(***************************************************************************)
(* The running bot with the automatic coin selection (main.py, line 218):  *)
(* update_trading_pairs replaces config.TRADING_PAIRS by the selection.    *)
(* The six hours that pass before the job runs are not kept on the clock,  *)
(* so the signals of the cycles before it still count as recent.  The      *)
(* market is quiet, the advisory model recommends buying.                  *)
(***************************************************************************)
\* update_trading_pairs, lines 379-392, run by schedule.run_pending between
\* two cycles (the first cycle is run by start itself, line 224)
UpdateTradingPairs ==
    /\ bot_pc = "scheduled"
    /\ cycle_count > 0
    /\ trading_pairs # SelectedPairs
    /\ trading_pairs' = SelectedPairs
    /\ UNCHANGED <<pc, market_data, response, analysis, signal, entered, caller, order,
                   components, kelly, detector, bot, executor>>

PairFeeds == {[symbol \in Symbols |-> Market(100, 10, 50, 50)]}

PairReplies == {reply \in BotReplies : reply.fields.direction = JStr("bullish")}

StartCycleQuiet == StartCycleOf(PairFeeds)

AnalyzeAndTradeBuying == AnalyzeAndTradeOf(PairReplies, BotExchange)

NextPairs ==
    \/ StartAsync
    \/ FinishAsync
    \/ UpdateTradingPairs
    \/ StartCycleQuiet
    \/ AnalyzeAndTradeBuying
    \/ FinishCycle

SpecPairs == Init /\ [][NextPairs]_vars

(***************************************************************************)
(* Properties                                                              *)
(***************************************************************************)
Sig == Val(signal)

StageName == Val(entered).stage

Entering == Val(entered).sig

C2_NeverRevalidated ==
    [][(signal # None /\ signal' # None /\ ~Val(signal).is_valid)
          => ~Val(signal').is_valid]_vars

\* a Risk Gate stage was evaluated on an invalid signal, which stayed invalid
C2_Witness ==
    /\ entered # None
    /\ ~Entering.is_valid
    /\ ~Sig.is_valid

\* C3: validate_signal short-circuits: no stage is evaluated on a signal
\* that an earlier stage has invalidated.
C3_ShortCircuit ==
    entered # None => Entering.is_valid

\* C4: analyze_market returns a Recommendation whose confidence is in [0,1],
\* whose risk score is in [1,10] and whose direction is bullish, bearish or
\* neutral, whatever the reply.
C4_RecommendationInRange ==
    analysis # None =>
        /\ FLe(P(0), Val(analysis).confidence)
        /\ FLe(Val(analysis).confidence, P(1))
        /\ Val(analysis).risk_score \in 1..10
        /\ Val(analysis).direction \in {"bullish", "bearish", "neutral"}

\* the cases of the neutral fallback: no reply (error status, timeout,
\* exception or empty content), a reply that cannot be parsed, fields that
\* cannot be extracted
NothingReturned(r) == r.call # "ok" \/ r.text = <<>>

CannotBeParsed(r) == DecodeResponse(r.text) = "error"

CannotBeExtracted(r) == DecodeResponse(r.text) = "object" /\ ExtractRaises(r.fields)

SignalRisk(sig) ==
    IF sig.signal_type = "long" THEN FSub(sig.price, sig.stop_loss)
    ELSE FSub(sig.stop_loss, sig.price)

SignalReward(sig) ==
    IF sig.signal_type = "long" THEN FSub(sig.take_profit, sig.price)
    ELSE FSub(sig.price, sig.take_profit)

\* C6: generate_signal never returns a signal whose risk distance is not
\* positive or whose reward/risk ratio is below MIN_RISK_REWARD_RATIO.
C6_RiskRewardFloor ==
    (pc = "generated" /\ signal # None) =>
        /\ FGt(SignalRisk(Sig), P(0))
        /\ FGe(FDiv(SignalReward(Sig), SignalRisk(Sig)), MIN_RISK_REWARD_RATIO)

\* a signal is returned whose stop-loss is the level the model suggested
C6_Witness ==
    /\ pc = "generated"
    /\ signal # None
    /\ Sig.stop_loss = Sig.analysis.stop_loss
    /\ Sig.stop_loss # FMul(Sig.price, F(97, 100))

\* the example: a bullish recommendation at price 100 that suggests stop 98
\* and target 101 (generate_signal has returned)
C7_Example ==
    /\ pc = "generated"
    /\ Val(market_data).current_price = P(100)
    /\ Val(analysis).is_valid
    /\ Val(analysis).direction = "bullish"
    /\ FGe(Val(analysis).confidence, MIN_CONFIDENCE)
    /\ Val(analysis).stop_loss = P(98)
    /\ Val(analysis).target_price = P(101)

\* C7 as stated: for the example generate_signal returns nothing.
C7_ExampleReturnsNothing == C7_Example => signal = None

\* C7, amended: for the example generate_signal returns a signal whose
\* stop-loss is 97 and whose take-profit is 106 (the default 3% and 6%
\* levels replace the suggested ones, reward/risk 2.0).
C7_ExampleUsesDefaults ==
    C7_Example => /\ signal # None
                  /\ Sig.stop_loss = P(97)
                  /\ Sig.take_profit = P(106)

\* the example went through generate_signal and a valid signal came back
C7_Witness == C7_Example /\ signal # None /\ Sig.is_valid

\* the drawdown of a P&L history is at or above 15%: the last cumulative
\* P&L lies 15% of the peak or more below the peak
RECURSIVE SumTo(_, _)
SumTo(pnl, k) == IF k = 0 THEN 0 ELSE SumTo(pnl, k - 1) + pnl[k]

Peak(pnl) ==
    CHOOSE m \in {SumTo(pnl, k) : k \in 1..Len(pnl)} :
        \A k \in 1..Len(pnl) : SumTo(pnl, k) <= m

EmergencyDrawdown(pnl) ==
    /\ pnl # <<>>
    /\ LET fall == Peak(pnl) - SumTo(pnl, Len(pnl))
       IN  \/ Peak(pnl) # 0 /\ 100 * fall >= 15 * Abs(Peak(pnl))
           \/ Peak(pnl) = 0 /\ fall > 0

\* C8: when the P&L history yields a drawdown at or above
\* EMERGENCY_STOP_DRAWDOWN, validate_signal returns every signal invalid.
C8_EmergencyStop ==
    (pc = "validated" /\ EmergencyDrawdown(daily_pnl)) => ~Sig.is_valid

\* P&L peaking at 1000 then falling to 840: the drawdown stage invalidates a
\* signal that entered it valid
C8_Witness ==
    /\ pc = "validated"
    /\ daily_pnl = <<1000, -160>>
    /\ entered # None
    /\ StageName = "drawdown"
    /\ Entering.is_valid
    /\ ~Sig.is_valid

\* the Kelly call at hand
KSig == Val(kelly_in).sig

KMetrics == Val(kelly_in).metrics

\* returned quantity x price / portfolio value
KellyFractionOut ==
    FDiv(FMul(Val(kelly_out), KSig.price), KellyPortfolioValue(Val(kelly_in).balance))

KellyComputed ==
    /\ kelly_out # None
    /\ KMetrics.present
    /\ KMetrics.total_trades >= 10
    /\ ~KellyRaises(KSig, KMetrics)

ZeroPayoffFailure ==
    /\ ~KMetrics.numpy
    /\ KMetrics.avg_win = P(0)
    /\ KMetrics.avg_loss # P(0)

Watched == "BTC/USDT"

\* the last scan got a summary for the watched symbol and left at least 3
\* points in its history
ScannedWithHistory ==
    /\ markets # None
    /\ Val(markets)[Watched].summary # None
    /\ Len(price_history[Watched]) >= 3

PriceRise == _calculate_price_change(price_history[Watched])

VolumeRatio == _calculate_volume_change(price_history[Watched])

BookImbalance == _analyze_orderbook(Val(markets)[Watched].orderbook)

Reported(symbol) ==
    \E i \in 1..Len(detected_pumps) : detected_pumps[i].symbol = symbol

\* C11: with at least 3 history points, a price change of exactly 3% with a
\* volume ratio of exactly 3x and an order-book imbalance of exactly 0.65 makes
\* scan_markets report a pump, and a price change or volume ratio below its
\* threshold yields no pump
C11_InclusiveBoundaries ==
    ScannedWithHistory =>
        /\ (/\ PriceRise = price_threshold
            /\ VolumeRatio = volume_multiplier
            /\ BookImbalance = orderbook_threshold) => Reported(Watched)
        /\ (FLt(PriceRise, price_threshold) \/ FLt(VolumeRatio, volume_multiplier))
              => ~Reported(Watched)

(***************************************************************************)
(* C12: what generate_signal rejects                                       *)
(***************************************************************************)
Recommendation == Val(analysis)

\* C12: generate_signal returns nothing when the Recommendation is invalid,
\* its confidence is below MIN_CONFIDENCE or its direction is neutral, and
\* every returned signal comes from a valid bullish or bearish Recommendation
\* with confidence at least MIN_CONFIDENCE, bullish mapped to buy/long and
\* bearish to sell/short
C12_OnlyConfidentDirectional ==
    pc = "generated" =>
        /\ (\/ ~Recommendation.is_valid
            \/ FLt(Recommendation.confidence, MIN_CONFIDENCE)
            \/ Recommendation.direction = "neutral") => signal = None
        /\ signal # None =>
              /\ Recommendation.is_valid
              /\ Recommendation.direction \in {"bullish", "bearish"}
              /\ FGe(Recommendation.confidence, MIN_CONFIDENCE)
              /\ Recommendation.direction = "bullish"
                    => Sig.direction = "buy" /\ Sig.signal_type = "long"
              /\ Recommendation.direction = "bearish"
                    => Sig.direction = "sell" /\ Sig.signal_type = "short"

(***************************************************************************)
(* C13: the protective levels of a built signal                            *)
(***************************************************************************)
Smaller(a, b) == IF FLe(a, b) THEN a ELSE b

Larger(a, b) == IF FGe(a, b) THEN a ELSE b

Positive(a) == FGt(a, F(0, 1))

DefaultStop(sig) ==
    IF sig.signal_type = "long"
    THEN FMul(sig.price, FSub(F(1, 1), DEFAULT_STOP_LOSS_PERCENT))
    ELSE FMul(sig.price, FAdd(F(1, 1), DEFAULT_STOP_LOSS_PERCENT))

DefaultTarget(sig) ==
    IF sig.signal_type = "long"
    THEN FMul(sig.price, FAdd(F(1, 1), DEFAULT_TAKE_PROFIT_PERCENT))
    ELSE FMul(sig.price, FSub(F(1, 1), DEFAULT_TAKE_PROFIT_PERCENT))

\* C13: a built signal with a positive suggested level has, for a long,
\* stop_loss = min(suggested stop, default stop) and take_profit =
\* max(suggested target, default target), for a short stop_loss = max and
\* take_profit = min; a suggested level that is not positive leaves the
\* default level alone
C13_ProtectiveLevels ==
    (pc = "generated" /\ signal # None) =>
        LET suggested_sl == Recommendation.stop_loss
            suggested_tp == Recommendation.target_price
        IN  /\ Sig.stop_loss =
                  IF ~Positive(suggested_sl) THEN DefaultStop(Sig)
                  ELSE IF Sig.signal_type = "long"
                       THEN Smaller(suggested_sl, DefaultStop(Sig))
                       ELSE Larger(suggested_sl, DefaultStop(Sig))
            /\ Sig.take_profit =
                  IF ~Positive(suggested_tp) THEN DefaultTarget(Sig)
                  ELSE IF Sig.signal_type = "long"
                       THEN Larger(suggested_tp, DefaultTarget(Sig))
                       ELSE Smaller(suggested_tp, DefaultTarget(Sig))

\* a long is returned whose suggested stop (90) lies below the default stop
\* (97) and whose suggested target (120) lies above the default target (106)
C13_Witness ==
    /\ pc = "generated"
    /\ signal # None
    /\ Sig.signal_type = "long"
    /\ Recommendation.stop_loss = F(90, 1)
    /\ Recommendation.target_price = F(120, 1)
    /\ Sig.stop_loss = F(90, 1)
    /\ Sig.take_profit = F(120, 1)

(***************************************************************************)
(* C14: the validity checklist of a built signal                           *)
(***************************************************************************)
Snapshot14 == Val(market_data)

\* the signals of the symbol recorded in the trailing 60 minutes before the
\* returned one was appended
RecordedBefore ==
    LET recent == SelectSeq(signal_history,
                            LAMBDA s : s.symbol = Sig.symbol /\ s.timestamp > now - 60)
    IN  IF Sig.is_valid THEN Len(recent) - 1 ELSE Len(recent)

LevelsOnCorrectSide ==
    IF Sig.signal_type = "long"
    THEN FLt(Sig.stop_loss, Sig.price) /\ FGt(Sig.take_profit, Sig.price)
    ELSE FGt(Sig.stop_loss, Sig.price) /\ FLt(Sig.take_profit, Sig.price)

\* C14: a returned signal has is_valid = true exactly when its price is
\* within 2% of the market price, its levels lie on the correct side, the
\* 5m RSI is below overbought (long) or above oversold (short), the volume
\* ratio is at least 0.8, and fewer than MAX_TRADES_PER_HOUR signals of the
\* symbol were recorded in the trailing 60 minutes
C14_ValidityChecklist ==
    (pc = "generated" /\ signal # None) =>
        (Sig.is_valid <=>
            /\ FLt(FDiv(FAbs(FSub(Sig.price, Snapshot14.current_price)),
                        Snapshot14.current_price), F(2, 100))
            /\ LevelsOnCorrectSide
            /\ IF Sig.signal_type = "long"
               THEN FLt(Snapshot14.rsi_5m, RSI_OVERBOUGHT)
               ELSE FGt(Snapshot14.rsi_5m, RSI_OVERSOLD)
            /\ FGe(Snapshot14.volume_ratio, F(8, 10))
            /\ RecordedBefore < MAX_TRADES_PER_HOUR)

(***************************************************************************)
(* C15: the exposure of a signal the Risk Gate returns valid               *)
(***************************************************************************)
ExposureCap == FMul(F(80, 100), _get_portfolio_value)

PositionValue(sig) == FMul(sig.quantity, sig.price)

RECURSIVE RealizedTo(_, _)
RealizedTo(closed, k) ==
    IF k = 0 THEN F(0, 1) ELSE FAdd(RealizedTo(closed, k - 1), closed[k])

RealizedPeak(closed) ==
    CHOOSE m \in {RealizedTo(closed, k) : k \in 1..Len(closed)} :
        \A k \in 1..Len(closed) : FLe(RealizedTo(closed, k), m)

\* the cumulative realized P&L stands at least EMERGENCY_STOP_DRAWDOWN of
\* its peak below that peak
RealizedEmergency(closed) ==
    /\ closed # <<>>
    /\ LET peak == RealizedPeak(closed)
           fall == FSub(peak, RealizedTo(closed, Len(closed)))
       IN  \/ peak # F(0, 1) /\ FGe(fall, FMul(EMERGENCY_STOP_DRAWDOWN, FAbs(peak)))
           \/ peak = F(0, 1) /\ FGt(fall, F(0, 1))

\* a step of the cycle that handles one pump or one pair
HandlesSignal == InCycle /\ (todo' # todo \/ cycle_pumps' # cycle_pumps)

\* C16: in the running bot, once the realized losses of the closed
\* positions put the drawdown of the cumulative P&L at or above the emergency
\* threshold, every signal handled afterwards comes out invalid (or there is
\* none) and no order is placed for it.
C16_EmergencyStopsTrading ==
    [][(RealizedEmergency(realized) /\ HandlesSignal)
          => (order' = None /\ (signal' = None \/ ~Val(signal').is_valid))]_vars

C18_EveryPairAnalysed ==
    (bot_pc = "scheduled" /\ cycle_count > 0) => analysed = PumpSymbols

(***************************************************************************)
(* C19: the fraction of the portfolio after position sizing                *)
(***************************************************************************)
\* quantity x price / portfolio value
PositionFraction(sig) == FDiv(FMul(sig.quantity, sig.price), _get_portfolio_value)

\* 30% of the portfolio value
FreeBalanceFloor == FMul(_get_portfolio_value, F(30, 100))

Sized == entered # None /\ StageName = "sizing" /\ Entering.price # F(0, 1)

Drawdown == _calculate_current_drawdown(daily_pnl)

WarningLevel == FMul(MAX_DRAWDOWN, F(80, 100))

AfterDrawdownStage ==
    entered # None /\ StageName = "drawdown" /\ FLt(Drawdown, EMERGENCY_STOP_DRAWDOWN)

\* C20: in the drawdown stage, with the drawdown below the emergency
\* threshold, the quantity is halved exactly when the drawdown exceeds 80% of
\* MAX_DRAWDOWN, the signal is invalidated when the drawdown reaches
\* MAX_DRAWDOWN (and not below it), and up to 80% of MAX_DRAWDOWN the signal
\* is returned unchanged.
C20_DrawdownStage ==
    AfterDrawdownStage =>
        /\ FGt(Drawdown, WarningLevel)
              => Sig.quantity = FMul(Entering.quantity, F(1, 2))
        /\ ~FGt(Drawdown, WarningLevel) => Sig.quantity = Entering.quantity
        /\ FGe(Drawdown, MAX_DRAWDOWN) => ~Sig.is_valid
        /\ FLt(Drawdown, MAX_DRAWDOWN) => Sig.is_valid = Entering.is_valid
        /\ FLe(Drawdown, WarningLevel) => Sig = Entering

\* a drawdown between 80% of MAX_DRAWDOWN and MAX_DRAWDOWN: the stage halved
\* a positive quantity and left the signal valid
C20_Witness ==
    /\ AfterDrawdownStage
    /\ FGt(Drawdown, WarningLevel)
    /\ FLt(Drawdown, MAX_DRAWDOWN)
    /\ FGt(Entering.quantity, F(0, 1))
    /\ Sig = [Entering EXCEPT !.quantity = FMul(Entering.quantity, F(1, 2))]

(***************************************************************************)
(* C21  The position limit of the running bot                              *)
(***************************************************************************)
OpenPositions == {symbol \in Symbols : positions[symbol] # None}

\* C21: in every reachable state of the running bot the position book holds
\* at most MAX_POSITIONS open positions (so no order opens a position for a
\* new symbol while MAX_POSITIONS positions are open).
\* _check_trade_frequency compares MAX_POSITIONS with the length of
\* _get_current_positions(), which is always the empty list, and nothing
\* else counts the positions: after update_trading_pairs has selected more
\* than MAX_POSITIONS pairs one cycle opens a position for each of them.
C21_AtMostMaxPositions == Cardinality(OpenPositions) <= MAX_POSITIONS

(***************************************************************************)
(* C22  What pump_history records                                          *)
(***************************************************************************)
\* the pumps recorded before the k-th one that satisfy a condition
RecordedEarlier(k, Test(_)) == {j \in 1..(k - 1) : Test(pump_history[j])}

RecordedWithinLimits(k) ==
    LET pump == pump_history[k]
        SameSymbolRecent(p) == p.symbol = pump.symbol /\ p.timestamp > pump.timestamp - 30
        Active(p) == p.timestamp > pump.timestamp - 10
    IN  /\ pump.is_valid
        /\ FGe(pump.confidence, F(6, 10))
        /\ FLt(pump.price_change_percent, F(50, 1))
        /\ Cardinality(RecordedEarlier(k, SameSymbolRecent)) < 3
        /\ Cardinality(RecordedEarlier(k, Active)) < max_pump_pairs

\* the pump detect_pump built from the last scan of a symbol, had the
\* thresholds been met
Moved(symbol) ==
    LET history == price_history[symbol]
    IN  /\ markets # None
        /\ Len(history) >= 3
        /\ history[Len(history)].timestamp = now
        /\ FGe(_calculate_price_change(history), price_threshold)
        /\ FGe(_calculate_volume_change(history), volume_multiplier)
        /\ FGe(_analyze_orderbook(Val(markets)[symbol].orderbook), orderbook_threshold)

RecordedNow(symbol) ==
    \E k \in 1..Len(pump_history) :
        pump_history[k].symbol = symbol /\ pump_history[k].timestamp = now

ReportedNow(symbol) ==
    \E k \in 1..Len(detected_pumps) : detected_pumps[k].symbol = symbol

\* C22: after any sequence of scans every pump in pump_history is valid, has
\* a confidence of at least 0.6 and a price change below 50%, and when it was
\* recorded fewer than 3 pumps of its symbol had been recorded in the 30
\* minutes before and fewer than max_pump_pairs pumps in the 10 minutes
\* before; scan_markets reports exactly the pumps it has just recorded, so a
\* pump that fails a check is neither recorded nor reported.
C22_RecordedPumpsValidated ==
    /\ \A k \in 1..Len(pump_history) : RecordedWithinLimits(k)
    /\ \A k \in 1..Len(detected_pumps) :
           /\ detected_pumps[k].is_valid
           /\ \E j \in 1..Len(pump_history) : pump_history[j] = detected_pumps[k]
    /\ \A symbol \in PumpSymbols : ReportedNow(symbol) <=> (RecordedNow(symbol) /\ Moved(symbol))

\* a move that meets the three thresholds is turned down because three pumps
\* of the symbol are on record, and another because max_pump_pairs pumps are
\* active
C22_Witness ==
    /\ Len(pump_history) >= max_pump_pairs
    /\ \E symbol \in PumpSymbols : Moved(symbol) /\ ~RecordedNow(symbol)

(***************************************************************************)
(* C23  The status of an Order                                             *)
(***************************************************************************)
TerminalStatuses == {"filled", "cancelled", "failed"}

\* the changes of status of the step, as pairs <<before, after>>
StatusMoves ==
    {<<orders[id].status, orders'[id].status>> :
        id \in {k \in 1..Len(orders) : k <= Len(orders') /\ orders'[k].status # orders[k].status}}

FillsOrder == Placing /\ orders'[Len(orders)].status = "filled"

FilledOrder == orders'[Len(orders)]

HeldBefore == Val(positions[FilledOrder.symbol])

SameDirection == HeldBefore.side = PositionSide(FilledOrder.side)

PnlAt(position, exit_price) ==
    IF position.side = "long"
    THEN FMul(FSub(exit_price, position.entry_price), position.size)
    ELSE FMul(FSub(position.entry_price, exit_price), position.size)

FillAdjustsPosition ==
    LET filled == FilledOrder.filled_amount
        price == FilledOrder.average_price
        after == positions'[FilledOrder.symbol]
    IN  IF SameDirection
        THEN /\ after # None
             /\ Val(after).side = HeldBefore.side
             /\ Val(after).size = FAdd(HeldBefore.size, filled)
             /\ Val(after).entry_price =
                    FDiv(FAdd(FMul(HeldBefore.size, HeldBefore.entry_price),
                              FMul(filled, price)),
                         FAdd(HeldBefore.size, filled))
             /\ realized' = realized
        ELSE IF FLt(filled, HeldBefore.size)
        THEN /\ after # None
             /\ Val(after).side = HeldBefore.side
             /\ Val(after).size = FSub(HeldBefore.size, filled)
             /\ Val(after).entry_price = HeldBefore.entry_price
             /\ realized' = realized
        ELSE /\ after = None
             /\ realized' = Append(realized, PnlAt(HeldBefore, price))

\* C24: for a filled order on a symbol that already has a Position, a fill
\* in the same direction sets the size to the sum of the sizes and the entry
\* price to the size-weighted average of the two prices; an opposite fill
\* smaller than the position reduces the size by the filled amount and keeps
\* the entry price; an opposite fill at least as large as the position
\* realizes the P&L at the fill price and deletes the Position.  Every
\* Position in the book has a size greater than 0.
C24_FillAdjustsPosition ==
    /\ [][(FillsOrder /\ positions[FilledOrder.symbol] # None) => FillAdjustsPosition]_vars
    /\ [](\A symbol \in Symbols :
             positions[symbol] # None => FGt(Val(positions[symbol]).size, F(0, 1)))

\* a position of 1 bought at 100 and 2 bought at 110
C24_Witness ==
    /\ positions["BTC/USDT"] # None
    /\ Val(positions["BTC/USDT"]).size = F(3, 1)
    /\ Val(positions["BTC/USDT"]).entry_price = F(320, 3)

(***************************************************************************)
(* C25  The Kelly refiner and the Risk Gate's quantity                     *)
(***************************************************************************)
\* the quantity validate_signal returned, handed to the Kelly refiner
GateQuantity == Val(kelly_in).sig.quantity

KellyRefined ==
    /\ pc = "place"
    /\ kelly_in # None
    /\ kelly_out # None
    /\ IsFinite(GateQuantity)
    /\ IsFinite(Val(kelly_out))

RecordedInHour(symbol, end) ==
    {k \in 1..Len(signal_history) :
        /\ signal_history[k].symbol = symbol
        /\ signal_history[k].timestamp > end - 60
        /\ signal_history[k].timestamp <= end}

\* C26: after any sequence of generate_signal calls, for every symbol and
\* every window of 60 minutes the signal history holds at most
\* MAX_TRADES_PER_HOUR signals of the symbol, every recorded signal is valid,
\* and a call appends to the history only the valid signal it returns.
C26_HourlyCap ==
    /\ [](\A symbol \in Symbols, end \in 0..MaxCallMinutes :
             Cardinality(RecordedInHour(symbol, end)) <= MAX_TRADES_PER_HOUR)
    /\ [](\A k \in 1..Len(signal_history) : signal_history[k].is_valid)
    /\ [][signal_history' # signal_history =>
             /\ signal' # None
             /\ Val(signal').is_valid
             /\ _validate_signal(Val(signal'), Val(market_data'), signal_history, now')
             /\ signal_history' = AppendValid(signal_history, signal')]_vars

\* the cap was reached within an hour, a further signal was turned down, and
\* signals were recorded again once the hour had passed
C26_Witness ==
    /\ Cardinality(RecordedInHour("BTC/USDT", 30)) = MAX_TRADES_PER_HOUR
    /\ Len(signal_history) > MAX_TRADES_PER_HOUR
    /\ signal # None
    /\ ~Val(signal).is_valid
    /\ Val(market_data).volume_ratio = P(1)

(***************************************************************************)
(* C27  The samples of the pump detector in the polling loop               *)
(***************************************************************************)
\* detect_pump, line 124: the history of the symbol holds three samples
EnoughHistory(symbol) == Len(price_history[symbol]) >= 3

\* _update_price_history, lines 186-193, in the polling loop: no history
\* holds more than 2 samples, however long the loop runs
AtMostTwoSamples == \A symbol \in Symbols : Len(price_history[symbol]) <= 2

InUnitInterval(a) == FGe(a, F(0, 1)) /\ FLe(a, F(1, 1))

\* C28: the confidence of a TradingSignal stays within [0, 1] from its
\* creation to the placing of the order, also after the ML blend and the
\* sentiment multipliers of analyze_and_trade, so that the Risk Gate and the
\* Kelly refiner never see a confidence above 1.
\* The multiplier 1.1 is applied without a cap: a confidence of 0.95 becomes
\* 1.045.
C28_ConfidenceInUnitInterval ==
    /\ signal # None => InUnitInterval(Val(signal).confidence)
    /\ kelly_in # None => InUnitInterval(Val(kelly_in).sig.confidence)

(***************************************************************************)
(* C29  Filled orders and the position book                                *)
(***************************************************************************)
\* the orders that reach the status filled in the step
BecomeFilled ==
    {id \in 1..Len(orders') :
        /\ orders'[id].status = "filled"
        /\ id <= Len(orders)
        /\ orders[id].status # "filled"}

\* C29: every order that reaches the status filled, at once in place_order
\* or later when check_open_orders finds it filled, is reflected in the
\* position book: the Position of its symbol is created or adjusted by the
\* filled amount.
\* check_open_orders records the fill in the Order and leaves the book alone.
C29_FillsReachTheBook ==
    [][\A id \in BecomeFilled :
          /\ FGt(orders'[id].filled_amount, F(0, 1))
          /\ positions'[orders'[id].symbol] # positions[orders'[id].symbol]]_vars

(***************************************************************************)
(* C30  The position book after a panic sale                               *)
(***************************************************************************)
\* C30: a panic sale removes a position from the book only if its closing
\* market order was accepted and filled by the exchange; a position whose
\* closing order failed or did not fill stays in the book.
\* positions.clear() empties the book whatever the closing orders did.
C30_OnlyClosedPositionsRemoved ==
    [][ExecutePanicSale =>
          \A symbol \in Symbols :
             (positions[symbol] # None /\ closing'[symbol] # "closed")
                => positions'[symbol] = positions[symbol]]_vars

====
